---- MODULE Spec2Model ----
(***************************************************************************)
(* Model of the Surfe api-examples repository: the bulk-enrichment         *)
(* submit / poll / collect pipeline as the entry-point scripts run it, and *)
(* the field reconciliation of contact_enrichment.py.                      *)
(***************************************************************************)
EXTENDS Integers, Sequences, FiniteSets, TLC

(***************************************************************************)
(* Bounds of the model.                                                    *)
(***************************************************************************)
\* largest max_attempts value poll_enrichment_status is called with
MaxAttemptsIn == 3
\* cap on the status requests of one run (the loops without a ceiling)
MaxRequests == 4

(***************************************************************************)
(* Values.  A JSON key that is missing is ABSENT; "" is the empty string.  *)
(***************************************************************************)
Absent == "ABSENT"
NoJob == "NO_JOB"
NoError == "NO_ERROR"

Scripts == {"contact", "enrichment", "company", "hubspot", "pipedrive", "zoom_outreach"}

\* the scripts whose poll loop has an attempt ceiling
Bounded(s) == s \in {"hubspot", "pipedrive", "zoom_outreach", "service"}

\* self_version the entry point constructs SurfeService with
ServiceVersion(s) == IF s = "zoom_outreach" THEN "v2" ELSE "v1"

\* Python truthiness of a string-valued field: None, missing and "" are falsy
Truthy(v) == v # Absent /\ v # ""

\* requests.Response.raise_for_status raises for 4xx and 5xx only
raise_for_status(code) == code >= 400 /\ code < 600

(***************************************************************************)
(* Records.  An original person is a dict over OrigKeys, an enriched       *)
(* person a dict over the scalar EnrichedKeys plus the candidate arrays    *)
(* "emails" and "mobilePhones"; an array is [has, v]: has = FALSE when the *)
(* key is missing.                                                         *)
(***************************************************************************)
OrigKeys == {"externalID", "firstName", "lastName", "companyName",
             "companyWebsite", "jobTitle", "linkedinUrl", "email", "phone"}
EmptyOriginal == [k \in OrigKeys |-> Absent]

NoArray == [has |-> FALSE, v |-> <<>>]
Array(s) == [has |-> TRUE, v |-> s]
EmptyEnriched ==
    [externalID |-> Absent, firstName |-> Absent, lastName |-> Absent,
     companyName |-> Absent, companyWebsite |-> Absent, jobTitle |-> Absent,
     linkedinUrl |-> Absent, emails |-> NoArray, mobilePhones |-> NoArray]

\* confidenceScore of a phone candidate that has none
NoScore == -1

\* dict.get(key, default)
Get(d, k, default) == IF d[k] = Absent THEN default ELSE d[k]

\* str.lower() on the identifiers of the model
Lower(s) ==
    CASE s = "ID1" -> "id1"
      [] s = "ID2" -> "id2"
      [] s = "A_A" -> "a_a"
      [] s = "A_B" -> "a_b"
      [] s = "B_A" -> "b_a"
      [] s = "B_B" -> "b_b"
      [] s = "C-Level" -> "c-level"
      [] s = "VP" -> "vp"
      [] s = "Manager" -> "manager"
      [] s = "Specialist" -> "specialist"
      [] s = "Enterprise" -> "enterprise"
      [] s = "Intro" -> "intro"
      [] s = "C Suite" -> "c suite"
      [] s = "Sales" -> "sales"
      [] OTHER -> s

\* str.replace(" ", "_"): no identifier of the model holds a space
ReplaceSpaces(s) == s

Min(S) == CHOOSE x \in S : \A y \in S : x <= y

(***************************************************************************)
(* contact_enrichment.py: best-candidate selection                         *)
(***************************************************************************)
\* lines 105-113: first VALID entry, else the first entry
select_email(enriched) ==
    LET es == enriched.emails
    IN  IF es.has /\ Len(es.v) > 0
        THEN LET valid == {i \in 1..Len(es.v) : es.v[i].validationStatus = "VALID"}
                 e1 == IF valid # {} THEN Get(es.v[Min(valid)], "email", "") ELSE ""
             IN  IF ~Truthy(e1) THEN Get(es.v[1], "email", "") ELSE e1
        ELSE ""

\* key=lambda x: x.get("confidenceScore", 0)
score_key(x) == IF x.confidenceScore = NoScore THEN 0 ELSE x.confidenceScore

\* insertion that keeps the returned order (no sorting)
insert_unsorted(sorted, x) == Append(sorted, x)

\* sorted(..., reverse=True) is stable: x goes behind every entry whose key
\* is at least its own
RECURSIVE insert_desc(_, _)
insert_desc(sorted, x) ==
    IF sorted = <<>> THEN <<x>>
    ELSE IF score_key(Head(sorted)) >= score_key(x)
         THEN <<Head(sorted)>> \o insert_desc(Tail(sorted), x)
         ELSE <<x>> \o sorted

RECURSIVE sorted_phones(_)
sorted_phones(phones) ==
    IF phones = <<>> THEN <<>>
    ELSE insert_desc(sorted_phones(SubSeq(phones, 1, Len(phones) - 1)),
                     phones[Len(phones)])

\* lines 115-124
select_phone(enriched) ==
    LET ps == enriched.mobilePhones
    IN  IF ps.has /\ Len(ps.v) > 0
        THEN Get(sorted_phones(ps.v)[1], "mobilePhone", "")
        ELSE ""

(***************************************************************************)
(* contact_enrichment.py: determine_update_status                          *)
(***************************************************************************)
\* field_mapping, in dict order (lines 147-154)
field_mapping == <<"firstName", "lastName", "companyName", "companyWebsite",
                   "jobTitle", "linkedinUrl">>

csv_field(api_field) ==
    CASE api_field = "firstName" -> "First Name"
      [] api_field = "lastName" -> "Last Name"
      [] api_field = "companyName" -> "Company Name"
      [] api_field = "companyWebsite" -> "Company Domain"
      [] api_field = "jobTitle" -> "Job Title"
      [] api_field = "linkedinUrl" -> "LinkedIn Profile URL"
      [] api_field = "email" -> "Email Address"
      [] api_field = "phone" -> "Mobile Phone Number"

\* classify reporting a filled gap as an update
classify_gap_as_update(orig_value, new_value) ==
    IF (~Truthy(orig_value) /\ ~Truthy(new_value)) \/ orig_value = new_value
    THEN "none"
    ELSE IF Truthy(new_value) THEN "updated"
    ELSE "none"

\* lines 171-179 for one field: "filled", "updated" or "none"
classify(orig_value, new_value) ==
    IF (~Truthy(orig_value) /\ ~Truthy(new_value)) \/ orig_value = new_value
    THEN "none"
    ELSE IF ~Truthy(orig_value) /\ Truthy(new_value) THEN "filled"
    ELSE IF Truthy(orig_value) /\ Truthy(new_value) /\ orig_value # new_value
         THEN "updated"
         ELSE "none"

\* lines 183-187 and 191-195: the email / phone comparison
classify_special(orig_value, new_value) ==
    IF orig_value # new_value
    THEN IF ~Truthy(orig_value) /\ Truthy(new_value) THEN "filled"
         ELSE IF Truthy(orig_value) /\ Truthy(new_value) /\ orig_value # new_value
              THEN "updated"
              ELSE "none"
    ELSE "none"

\* the class of each tracked field, in the order the code visits them
field_classes(original, enriched, email, mobile_phone) ==
    [i \in 1..Len(field_mapping) |->
        [name |-> csv_field(field_mapping[i]),
         class |-> classify(Get(original, field_mapping[i], ""),
                            Get(enriched, field_mapping[i], ""))]]
    \o << [name |-> "Email Address",
           class |-> classify_special(Get(original, "email", ""), email)],
          [name |-> "Mobile Phone Number",
           class |-> classify_special(Get(original, "phone", ""), mobile_phone)] >>

RECURSIVE names_of(_, _)
names_of(classes, c) ==
    IF classes = <<>> THEN <<>>
    ELSE (IF Head(classes).class = c THEN <<Head(classes).name>> ELSE <<>>)
         \o names_of(Tail(classes), c)

\* join that puts nothing between the names
join_without_separator(names) == names

\* ", ".join(names), as the sequence of its pieces
RECURSIVE join(_)
join(names) ==
    IF names = <<>> THEN <<>>
    ELSE IF Len(names) = 1 THEN names
    ELSE <<Head(names), ", ">> \o join(Tail(names))

\* lines 143-204; the returned string is the sequence of its pieces
determine_update_status(original, enriched, email, mobile_phone) ==
    LET classes == field_classes(original, enriched, email, mobile_phone)
        updates == names_of(classes, "updated")
        filled_gaps == names_of(classes, "filled")
    IN  IF updates # <<>> /\ filled_gaps # <<>>
        THEN <<"Updated: ">> \o join(updates) \o <<"; Filled: ">> \o join(filled_gaps)
        ELSE IF updates # <<>> THEN <<"Updated: ">> \o join(updates)
        ELSE IF filled_gaps # <<>> THEN <<"Filled: ">> \o join(filled_gaps)
        ELSE <<"No changes">>

(***************************************************************************)
(* contact_enrichment.py: compare_and_update_data                          *)
(***************************************************************************)
\* lines 95-97: the key an original is stored under
original_key(person) ==
    LET key == Lower(Get(person, "externalID", ""))
    IN  IF ~Truthy(key) /\ person["firstName"] # Absent /\ person["lastName"] # Absent
        THEN ReplaceSpaces(Lower(person["firstName"] \o "_" \o person["lastName"]))
        ELSE key

\* a mapping in which the first original stored under a key stays
original_map_get_first(original_data, external_id) ==
    LET hits == {i \in 1..Len(original_data) :
                    original_key(original_data[i]) = external_id}
    IN  IF hits = {} THEN EmptyOriginal ELSE original_data[Min(hits)]

\* lines 93-98 and 103: original_map.get(external_id, {}); a later original
\* replaces an earlier one stored under the same key
original_map_get(original_data, external_id) ==
    LET hits == {i \in 1..Len(original_data) :
                    original_key(original_data[i]) = external_id}
    IN  IF hits = {} THEN EmptyOriginal
        ELSE original_data[CHOOSE i \in hits : \A j \in hits : j <= i]

\* overlay preferring the original value
overlay_keep_original(original, enriched, api_field) ==
    Get(original, api_field, Get(enriched, api_field, ""))

\* enriched.get(api_field, original.get(api_field, ""))
overlay(original, enriched, api_field) ==
    Get(enriched, api_field, Get(original, api_field, ""))

\* lines 100-139: the output row of one enriched record
updated_row(original_data, enriched) ==
    LET external_id == Lower(Get(enriched, "externalID", ""))
        original == original_map_get(original_data, external_id)
        email == select_email(enriched)
        mobile_phone == select_phone(enriched)
    IN  [firstName |-> overlay(original, enriched, "firstName"),
         lastName |-> overlay(original, enriched, "lastName"),
         companyName |-> overlay(original, enriched, "companyName"),
         companyWebsite |-> overlay(original, enriched, "companyWebsite"),
         email |-> email,
         phone |-> mobile_phone,
         jobTitle |-> overlay(original, enriched, "jobTitle"),
         linkedinUrl |-> overlay(original, enriched, "linkedinUrl"),
         status |-> determine_update_status(original, enriched, email, mobile_phone)]

\* a reconcile that walks the originals and gives one row per original
compare_per_original(original_data, enriched_people) ==
    [i \in 1..Len(original_data) |-> updated_row(original_data, enriched_people[1])]

\* lines 86-141
compare_and_update_data(original_data, enriched_people) ==
    [i \in 1..Len(enriched_people) |-> updated_row(original_data, enriched_people[i])]

(***************************************************************************)
(* The remote.  Every request is answered by any response of these sets.   *)
(***************************************************************************)
\* answers to the submit POST: status code and the body's id fields
SubmitResponses ==
    [code : {202, 200, 400}, id : {Absent, "job1"}, enrichmentID : {Absent, "job2"}]

\* the enriched persons of a pipeline run: nothing found, a job title found,
\* an email found
RunPerson(id, found) ==
    [EmptyEnriched EXCEPT
        !.externalID = id,
        !.jobTitle = IF found = "job" THEN "CEO" ELSE Absent,
        !.emails = IF found = "email"
                   THEN Array(<<[email |-> "x", validationStatus |-> "VALID"]>>)
                   ELSE NoArray]
RunPayloads ==
    {NoArray, Array(<<>>)}
    \cup {Array(<<RunPerson(id, found)>>) :
            id \in {Absent, "0", "a_b"}, found \in {"none", "job", "email"}}

\* answers to the status GET: a server error without a job status, a job
\* still running, a completed job with its people, a failed job with its error
StatusResponses ==
    {[code |-> 500, status |-> Absent, people |-> NoArray, error |-> Absent]}
    \cup {[code |-> 200, status |-> st, people |-> NoArray, error |-> Absent] :
            st \in {"IN_PROGRESS", "PENDING", Absent}}
    \cup {[code |-> 200, status |-> "COMPLETED", people |-> p, error |-> Absent] :
            p \in RunPayloads}
    \cup {[code |-> 200, status |-> "FAILED", people |-> NoArray, error |-> e] :
            e \in {Absent, "quota"}}

NoResponse == [code |-> 0, status |-> Absent, people |-> NoArray, error |-> Absent]

\* the source records a run starts from: none, or one person
SourcePerson(s) ==
    [EmptyOriginal EXCEPT !["externalID"] = IF s = "contact" THEN "a_b" ELSE "0",
                          !["firstName"] = "a", !["lastName"] = "b",
                          !["companyName"] = "a"]
SourceBatches(s) == {<<>>, <<SourcePerson(s)>>}

\* int(enriched['externalID']) succeeds
is_int(id) == id \in {"0", "1"}

(***************************************************************************)
(* State of one run of an entry-point script.                              *)
(***************************************************************************)
VARIABLES
    script,        \* the entry point that runs
    env_ok,        \* the API keys are set in the environment
    people,        \* the source records of the batch
    pc,            \* position of the run
    max_attempts,  \* argument of poll_enrichment_status
    attempts,      \* its loop counter
    submits,       \* submit POSTs issued
    requests,      \* status GETs issued
    sleeps,        \* time.sleep calls made
    observed,      \* statuses of the status responses, in order
    status_data,   \* the last status response
    submit_resp,   \* the response to the submit POST
    job_id,        \* the id submit returned
    result,        \* what the poll returned
    error,         \* the exception raised, or the exit(1) taken
    error_payload, \* its message payload
    writes,        \* destination writes (CSV saves, CRM update calls)
    exit_code,     \* exit status of the process
    updated_data,  \* output rows of compare_and_update_data
    self_version,  \* the API version the run's Surfe client is configured with
    post_url,      \* URL of the submit POST
    get_url,       \* URL of the status GETs
    site,          \* the per-record CRM write loop that runs
    records,       \* the records it iterates over
    idx,           \* position of the record it handles next
    created,       \* records appended to the created list
    failed_creations, \* error messages appended to the failure list
    outcomes,      \* the branch the loop body took for each record, in order
    reported,      \* the summary given after the loop
    fn,            \* the function that is applied on its own
    arg,           \* its argument
    ret,           \* what it returned or raised
    called,        \* it has been applied
    page_fn,       \* the paginated Zoom listing that runs
    page_pc,       \* its position: "loop", "returned" or "raised"
    next_page_token, \* its local next_page_token
    sent_tokens,   \* the next_page_token parameter of each page request made
    pages,         \* the page responses received, in order
    all_records,   \* its accumulator (all_registrants / all_participants)
    handler,       \* the webhook handler that serves the request
    request,       \* the webhook request
    hook_pc,       \* position of the handler
    calls,         \* outbound calls made by the handler, in order
    response       \* the handler's answer

vars == <<script, env_ok, people, pc, max_attempts, attempts, submits, requests,
          sleeps, observed, status_data, submit_resp, job_id, result, error, error_payload,
          writes, exit_code, updated_data, self_version, post_url, get_url,
          site, records, idx, created, failed_creations, outcomes, reported,
          fn, arg, ret, called,
          page_fn, page_pc, next_page_token, sent_tokens, pages, all_records,
          handler, request, hook_pc, calls, response>>

\* the state of the submit / poll run, and the state of the write loop
runVars == <<script, env_ok, people, pc, max_attempts, attempts, submits, requests,
             sleeps, observed, status_data, submit_resp, job_id, result, error,
             error_payload, writes, exit_code, updated_data, self_version, post_url, get_url>>
batchVars == <<site, records, idx, created, failed_creations, outcomes, reported>>

\* the state of a function applied on its own, of a paginated listing, and
\* of a webhook delivery
pureVars == <<fn, arg, ret, called>>
pageVars == <<page_fn, page_pc, next_page_token, sent_tokens, pages, all_records>>
hookVars == <<handler, request, hook_pc, calls, response>>
auxVars == <<pureVars, pageVars, hookVars>>

NoUrl == [version |-> Absent, path |-> Absent, id |-> Absent]
NoReport == [done |-> FALSE, created |-> 0, failures |-> <<>>]

\* no write loop runs
NoBatch ==
    /\ site = "none"
    /\ records = <<>>
    /\ idx = 0
    /\ created = <<>>
    /\ failed_creations = <<>>
    /\ outcomes = <<>>
    /\ reported = NoReport

NoSubmitResponse == [code |-> 0, id |-> Absent, enrichmentID |-> Absent]
NoResult == [returned |-> FALSE, people |-> NoArray]

\* no function is applied on its own
NoPure ==
    /\ fn = "none"
    /\ arg = <<>>
    /\ ret = <<>>
    /\ called = FALSE

\* no paginated listing runs
NoPages ==
    /\ page_fn = "none"
    /\ page_pc = "none"
    /\ next_page_token = Absent
    /\ sent_tokens = <<>>
    /\ pages = <<>>
    /\ all_records = <<>>

NoAnswer == [status |-> 0, body |-> Absent, is_c_level |-> FALSE]

\* no webhook is delivered
NoHook ==
    /\ handler = "none"
    /\ request = <<>>
    /\ hook_pc = "none"
    /\ calls = <<>>
    /\ response = NoAnswer

NoAux == NoPure /\ NoPages /\ NoHook

Init ==
    /\ script \in Scripts
    /\ env_ok \in BOOLEAN
    /\ people \in SourceBatches(script)
    /\ pc = "start"
    /\ max_attempts \in 0..MaxAttemptsIn
    /\ attempts = 0
    /\ submits = 0
    /\ requests = 0
    /\ sleeps = 0
    /\ observed = <<>>
    /\ status_data = NoResponse
    /\ submit_resp = NoSubmitResponse
    /\ job_id = NoJob
    /\ result = NoResult
    /\ error = NoError
    /\ error_payload = Absent
    /\ writes = 0
    /\ exit_code = 0
    /\ updated_data = <<>>
    /\ self_version = ServiceVersion(script)
    /\ post_url = NoUrl
    /\ get_url = NoUrl
    /\ NoBatch
    /\ NoAux

\* contact_enrichment's handler printing the error and returning nothing
exit_on_error_none(s) == IF s \in {"enrichment", "company"} THEN 1 ELSE 0

\* exit status after an exception: contact_enrichment returns 1 from its
\* handler, the two flat scripts die with a traceback or exit(1), the HubSpot
\* and Zoom mains print the error and return None
exit_on_error(s) == IF s \in {"contact", "enrichment", "company"} THEN 1 ELSE 0

\* an error handler that goes back to the submit
Fail_and_resubmit(kind, payload) ==
    /\ pc' = "submit"
    /\ error' = kind
    /\ error_payload' = payload
    /\ exit_code' = exit_on_error(script)

\* the run ends with the exception kind, carrying payload
Fail(kind, payload) ==
    /\ pc' = "done"
    /\ error' = kind
    /\ error_payload' = payload
    /\ exit_code' = exit_on_error(script)

(***************************************************************************)
(* Submit, per implementation: [ok, id, err]                               *)
(***************************************************************************)
Accepted(id) == [ok |-> TRUE, id |-> id, err |-> NoError]
Rejected(err) == [ok |-> FALSE, id |-> NoJob, err |-> err]

\* start_bulk_enrichment reading the id with .get("id")
start_bulk_enrichment_get(resp) ==
    IF resp.code # 202 THEN Rejected("RequestError")
    ELSE Accepted(resp.id)

\* contact_enrichment.py lines 56-66
start_bulk_enrichment(resp) ==
    IF resp.code # 202 THEN Rejected("RequestError")
    ELSE IF resp.id = Absent THEN Rejected("KeyError")
    ELSE Accepted(resp.id)

\* start_enrichment taking whichever id field the response has
start_enrichment_by_shape(version, resp) ==
    IF raise_for_status(resp.code) THEN Rejected("RequestError")
    ELSE IF resp.enrichmentID # Absent THEN Accepted(resp.enrichmentID)
    ELSE IF resp.id # Absent THEN Accepted(resp.id)
    ELSE Rejected("KeyError")

\* core/surfe/service.py lines 72-78
start_enrichment(version, resp) ==
    IF raise_for_status(resp.code) THEN Rejected("RequestError")
    ELSE IF version = "v2"
         THEN IF resp.enrichmentID = Absent THEN Rejected("KeyError")
              ELSE Accepted(resp.enrichmentID)
         ELSE IF resp.id = Absent THEN Rejected("KeyError")
              ELSE Accepted(resp.id)

\* hubspot main.py lines 65-67
start_surfe_enrichment(resp) ==
    IF raise_for_status(resp.code) THEN Rejected("RequestError")
    ELSE IF resp.id = Absent THEN Rejected("KeyError")
    ELSE Accepted(resp.id)

\* src/enrichment.py lines 42-57: exit(1) on either failure
enrichment_submit(resp) ==
    IF resp.code # 202 THEN Rejected("RequestError")
    ELSE IF resp.id = Absent THEN Rejected("MissingId")
    ELSE Accepted(resp.id)

\* company-enrichment-example/enrichment.py lines 31-40
company_submit(resp) ==
    IF resp.code # 202 THEN Rejected("RequestError")
    ELSE IF ~Truthy(resp.id) THEN Rejected("MissingId")
    ELSE Accepted(resp.id)

\* new-structure/core/surfe/service.py lines 52-54
new_start_enrichment(resp) ==
    IF raise_for_status(resp.code) THEN Rejected("RequestError")
    ELSE IF resp.id = Absent THEN Rejected("KeyError")
    ELSE Accepted(resp.id)

\* tailwind services/surfe.py lines 24-30: the response is parsed and not read
tailwind_submit(resp) == Accepted(NoJob)

\* an API URL: base self_version, path, and the id appended to the path (if any)
Url(v, path, id) == [version |-> v, path |-> path, id |-> id]

\* core/surfe/service.py lines 67-70
start_enrichment_url(v) ==
    IF v = "v2" THEN Url(v, "/people/enrich", Absent)
    ELSE Url(v, "/people/enrichments/bulk", Absent)

\* core/surfe/service.py lines 92-95
poll_enrichment_status_url(v, enrichment_id) ==
    IF v = "v2" THEN Url(v, "/people/enrich/", enrichment_id)
    ELSE Url(v, "/people/enrichments/bulk/", enrichment_id)

\* the URL each implementation posts the batch to
submit_url(s, v) ==
    CASE s \in {"zoom_outreach", "service"} -> start_enrichment_url(v)
      [] s = "company" -> Url("v1", "/organizations/enrichments/bulk", Absent)
      [] s = "tailwind" -> Url("v1", "/people/enrichments", Absent)
      [] OTHER -> Url("v1", "/people/enrichments/bulk", Absent)

\* the URL each implementation gets the job status from
status_url(s, v, id) ==
    CASE s \in {"zoom_outreach", "service"} -> poll_enrichment_status_url(v, id)
      [] s = "company" -> Url("v1", "/organizations/enrichments/bulk/", id)
      [] s = "tailwind" -> Url("v1", "/people/enrichments", Absent)
      [] OTHER -> Url("v1", "/people/enrichments/bulk/", id)

submit(s, resp) ==
    CASE s = "contact" -> start_bulk_enrichment(resp)
      [] s = "enrichment" -> enrichment_submit(resp)
      [] s = "company" -> company_submit(resp)
      [] s = "hubspot" -> start_surfe_enrichment(resp)
      [] s = "pipedrive" -> new_start_enrichment(resp)
      [] s = "zoom_outreach" -> start_enrichment(ServiceVersion(s), resp)
      [] s = "service" -> start_enrichment(self_version, resp)
      [] s = "tailwind" -> tailwind_submit(resp)

(***************************************************************************)
(* One status response, per implementation:                                *)
(* [kind : "return" | "raise" | "sleep", people, err, payload]             *)
(***************************************************************************)
Return(p) == [kind |-> "return", people |-> p, err |-> NoError, payload |-> Absent]
Raise(err, payload) == [kind |-> "raise", people |-> NoArray, err |-> err, payload |-> payload]
Wait == [kind |-> "sleep", people |-> NoArray, err |-> NoError, payload |-> Absent]

\* f"Enrichment failed: {data.get('error', 'Unknown error')}"
EnrichmentFailed(data) == Raise("EnrichmentFailed", Get(data, "error", "Unknown error"))

\* service_poll reading the records under a key the response does not have
service_poll_wrong_key(data) ==
    IF raise_for_status(data.code) THEN Raise("RequestError", Absent)
    ELSE IF data.status = "COMPLETED" THEN Return(Array(<<>>))
    ELSE IF data.status = "FAILED" THEN EnrichmentFailed(data)
    ELSE Wait

\* core/surfe/service.py lines 100-107: returns data.get("people", [])
service_poll(data) ==
    IF raise_for_status(data.code) THEN Raise("RequestError", Absent)
    ELSE IF data.status = "COMPLETED"
         THEN Return(IF data.people.has THEN data.people ELSE Array(<<>>))
    ELSE IF data.status = "FAILED" THEN EnrichmentFailed(data)
    ELSE Wait

\* hubspot_poll without its FAILED branch
hubspot_poll_no_failed(data) ==
    IF raise_for_status(data.code) THEN Raise("RequestError", Absent)
    ELSE IF data.status = "COMPLETED" THEN Return(data.people)
    ELSE Wait

\* hubspot main.py lines 81-89: returns data
hubspot_poll(data) ==
    IF raise_for_status(data.code) THEN Raise("RequestError", Absent)
    ELSE IF data.status = "COMPLETED" THEN Return(data.people)
    ELSE IF data.status = "FAILED" THEN EnrichmentFailed(data)
    ELSE Wait

\* contact_enrichment.py lines 76-84 and 246-253
contact_poll(data) ==
    IF data.code # 200 THEN Raise("RequestError", Absent)
    ELSE IF data.status = Absent THEN Raise("KeyError", Absent)
    ELSE IF data.status = "COMPLETED"
         THEN IF data.people.has THEN Return(data.people) ELSE Raise("KeyError", Absent)
    ELSE IF data.status = "FAILED" THEN EnrichmentFailed(data)
    ELSE Wait

\* src/enrichment.py lines 62-69: leaves the loop on any status but IN_PROGRESS
enrichment_poll(data) ==
    IF data.status = Absent THEN Raise("KeyError", Absent)
    ELSE IF data.status # "IN_PROGRESS"
         THEN Return(IF data.people.has THEN data.people ELSE Array(<<>>))
    ELSE Wait

\* company-enrichment-example/enrichment.py lines 45-53
company_poll(data) ==
    IF Get(data, "status", "None") # "IN_PROGRESS"
    THEN Return(IF data.people.has THEN data.people ELSE Array(<<>>))
    ELSE Wait

\* new-structure/core/surfe/service.py lines 72-80: returns data
new_service_poll(data) ==
    IF raise_for_status(data.code) THEN Raise("RequestError", Absent)
    ELSE IF data.status = "COMPLETED" THEN Return(data.people)
    ELSE IF data.status = "FAILED" THEN EnrichmentFailed(data)
    ELSE Wait

\* tailwind services/surfe.py lines 33-38: returns the response body
tailwind_poll(data) ==
    IF Get(data, "status", "None") # "IN_PROGRESS"
    THEN Return(data.people)
    ELSE Wait

poll(s, data) ==
    CASE s = "contact" -> contact_poll(data)
      [] s = "enrichment" -> enrichment_poll(data)
      [] s = "company" -> company_poll(data)
      [] s = "hubspot" -> hubspot_poll(data)
      [] s = "pipedrive" -> new_service_poll(data)
      [] s = "zoom_outreach" -> service_poll(data)
      [] s = "service" -> service_poll(data)
      [] s = "tailwind" -> tailwind_poll(data)

\* an attempt ceiling in every poll loop
loop_test_ceiling(s, n, max) == n < max

\* loop_test with <= for <
loop_test_off_by_one(s, n, max) == IF Bounded(s) THEN n <= max ELSE TRUE

\* the while condition of the poll loop: attempts < max_attempts, or True
loop_test(s, n, max) == IF Bounded(s) THEN n < max ELSE TRUE

(***************************************************************************)
(* What each script does with the polled result                            *)
(***************************************************************************)
\* sorted(emails, key=lambda x: 0 if VALID else 1): the VALID entries in
\* order, then the others in order; [0].get("email")
sorted_select_email(person) ==
    LET es == person.emails
        is_valid(x) == x.validationStatus = "VALID"
        not_valid(x) == x.validationStatus # "VALID"
        sorted_emails == SelectSeq(es.v, is_valid) \o SelectSeq(es.v, not_valid)
    IN  IF es.has /\ Len(es.v) > 0 THEN sorted_emails[1].email ELSE Absent

\* sorted(phones, key=confidenceScore, reverse=True)[0].get("mobilePhone")
sorted_select_phone(person) ==
    LET ps == person.mobilePhones
    IN  IF ps.has /\ Len(ps.v) > 0 THEN sorted_phones(ps.v)[1].mobilePhone ELSE Absent

\* hubspot main.py lines 127-138: the person yields properties to update
hubspot_has_properties(person) ==
    \/ Truthy(sorted_select_email(person))
    \/ Truthy(sorted_select_phone(person))
    \/ Truthy(person.jobTitle)
    \/ Truthy(person.linkedinUrl)

\* pipedrive/service.py lines 477-511: update data exists for person_id
pipedrive_has_update(person_id, enriched_people) ==
    LET hits == {i \in 1..Len(enriched_people) :
                    enriched_people[i].externalID = person_id}
    IN  /\ hits # {}
        /\ LET enriched_person == enriched_people[Min(hits)]
           IN  \/ Truthy(sorted_select_email(enriched_person))
               \/ Truthy(sorted_select_phone(enriched_person))

\* number of elements of a sequence satisfying a test
Count(seq, Test(_)) == Len(SelectSeq(seq, Test))

(***************************************************************************)
(* The run                                                                 *)
(***************************************************************************)
\* the run ends normally
Finish ==
    /\ pc' = "done"
    /\ exit_code' = 0
    /\ UNCHANGED <<error, error_payload>>

\* the entry checks of each main, up to the submit call
Start ==
    /\ pc = "start"
    /\ IF ~env_ok /\ script # "company"
       THEN \* the key check; src/enrichment.py dies on os.environ[...]
            Fail(IF script = "enrichment" THEN "KeyError" ELSE "MissingApiKey", Absent)
       ELSE IF people = <<>> /\ script \in {"hubspot", "pipedrive", "zoom_outreach"}
            THEN Finish
            ELSE /\ pc' = "submit"
                 /\ UNCHANGED <<error, error_payload, exit_code>>
    /\ UNCHANGED <<script, env_ok, people, max_attempts, attempts, submits, requests,
                   sleeps, observed, status_data, submit_resp, job_id, result, writes, updated_data>>
    /\ UNCHANGED <<self_version, post_url, get_url>>
    /\ UNCHANGED batchVars
    /\ UNCHANGED auxVars

\* the submit POST and the reading of its response
Submit ==
    /\ pc = "submit"
    /\ \E resp \in SubmitResponses :
         LET r == submit(script, resp)
         IN  /\ submits' = submits + 1
             /\ submit_resp' = resp
             /\ job_id' = r.id
             /\ IF r.ok
                THEN /\ pc' = "poll"
                     /\ UNCHANGED <<error, error_payload, exit_code>>
                ELSE Fail(r.err, Absent)
    /\ UNCHANGED <<script, env_ok, people, max_attempts, attempts, requests, sleeps,
                   observed, status_data, result, writes, updated_data>>
    /\ post_url' = submit_url(script, self_version)
    /\ UNCHANGED <<self_version, get_url>>
    /\ UNCHANGED batchVars
    /\ UNCHANGED auxVars

\* entry of the poll: attempts = 0 and the first loop test
PollEnter ==
    /\ pc = "poll"
    /\ attempts' = 0
    /\ IF loop_test(script, 0, max_attempts)
       THEN /\ pc' = "request"
            /\ UNCHANGED <<error, error_payload, exit_code>>
       ELSE Fail("EnrichmentTimeout", Absent)
    /\ UNCHANGED <<script, env_ok, people, max_attempts, submits, requests, sleeps,
                   observed, status_data, submit_resp, job_id, result, writes, updated_data>>
    /\ get_url' = status_url(script, self_version, job_id)
    /\ UNCHANGED <<self_version, post_url>>
    /\ UNCHANGED batchVars
    /\ UNCHANGED auxVars

\* one status GET and the branch on its response
PollRequest ==
    /\ pc = "request"
    /\ Bounded(script) \/ requests < MaxRequests
    /\ \E data \in StatusResponses :
         LET r == poll(script, data)
         IN  /\ requests' = requests + 1
             /\ observed' = Append(observed, data.status)
             /\ status_data' = data
             /\ CASE r.kind = "return" ->
                       /\ result' = [returned |-> TRUE, people |-> r.people]
                       /\ pc' = "polled"
                       /\ UNCHANGED <<error, error_payload, exit_code>>
                  [] r.kind = "raise" ->
                       /\ Fail(r.err, r.payload)
                       /\ UNCHANGED result
                  [] r.kind = "sleep" ->
                       /\ pc' = "sleep"
                       /\ UNCHANGED <<result, error, error_payload, exit_code>>
    /\ UNCHANGED <<script, env_ok, people, max_attempts, attempts, submits, sleeps,
                   submit_resp, job_id, writes, updated_data>>
    /\ UNCHANGED <<self_version, post_url, get_url>>
    /\ UNCHANGED batchVars
    /\ UNCHANGED auxVars

\* time.sleep, attempts += 1 and the next loop test
Sleep ==
    /\ pc = "sleep"
    /\ sleeps' = sleeps + 1
    /\ attempts' = IF Bounded(script) THEN attempts + 1 ELSE attempts
    /\ IF loop_test(script, attempts', max_attempts)
       THEN /\ pc' = "request"
            /\ UNCHANGED <<error, error_payload, exit_code>>
       ELSE Fail("EnrichmentTimeout", Absent)
    /\ UNCHANGED <<script, env_ok, people, max_attempts, submits, requests, observed,
                   status_data, submit_resp, job_id, result, writes, updated_data>>
    /\ UNCHANGED <<self_version, post_url, get_url>>
    /\ UNCHANGED batchVars
    /\ UNCHANGED auxVars

\* contact_enrichment.py lines 258-272: reconcile, save, return 0;
\* save_output_csv writes nothing for an empty list
ContactProcess ==
    /\ pc = "polled"
    /\ script = "contact"
    /\ updated_data' = compare_and_update_data(people, result.people.v)
    /\ writes' = IF updated_data' # <<>> THEN writes + 1 ELSE writes
    /\ Finish
    /\ UNCHANGED <<script, env_ok, people, max_attempts, attempts, submits, requests,
                   sleeps, observed, status_data, submit_resp, job_id, result>>
    /\ UNCHANGED <<self_version, post_url, get_url>>
    /\ UNCHANGED batchVars
    /\ UNCHANGED auxVars

\* src/enrichment.py lines 68-77: int(enriched['externalID']) per person,
\* then to_csv
EnrichmentProcess ==
    /\ pc = "polled"
    /\ script = "enrichment"
    /\ LET ps == result.people.v
           bad == {i \in 1..Len(ps) : ~is_int(ps[i].externalID)}
       IN  IF bad # {}
           THEN /\ Fail(IF ps[Min(bad)].externalID = Absent THEN "KeyError"
                        ELSE "ValueError", Absent)
                /\ UNCHANGED writes
           ELSE /\ writes' = writes + 1
                /\ Finish
    /\ UNCHANGED <<script, env_ok, people, max_attempts, attempts, submits, requests,
                   sleeps, observed, status_data, submit_resp, job_id, result, updated_data>>
    /\ UNCHANGED <<self_version, post_url, get_url>>
    /\ UNCHANGED batchVars
    /\ UNCHANGED auxVars

\* company-enrichment-example/enrichment.py lines 51-83: map, combine, to_csv
CompanyProcess ==
    /\ pc = "polled"
    /\ script = "company"
    /\ writes' = writes + 1
    /\ Finish
    /\ UNCHANGED <<script, env_ok, people, max_attempts, attempts, submits, requests,
                   sleeps, observed, status_data, submit_resp, job_id, result, updated_data>>
    /\ UNCHANGED <<self_version, post_url, get_url>>
    /\ UNCHANGED batchVars
    /\ UNCHANGED auxVars

\* hubspot main.py lines 216-225: person["externalID"] of every person with
\* properties, then one batch update call if there is anything to update
HubspotProcess ==
    /\ pc = "polled"
    /\ script = "hubspot"
    /\ LET ps == result.people.v
           upd == {i \in 1..Len(ps) : hubspot_has_properties(ps[i])}
       IN  IF \E i \in upd : ps[i].externalID = Absent
           THEN /\ Fail("KeyError", Absent)
                /\ UNCHANGED writes
           ELSE /\ writes' = IF upd # {} THEN writes + 1 ELSE writes
                /\ Finish
    /\ UNCHANGED <<script, env_ok, people, max_attempts, attempts, submits, requests,
                   sleeps, observed, status_data, submit_resp, job_id, result, updated_data>>
    /\ UNCHANGED <<self_version, post_url, get_url>>
    /\ UNCHANGED batchVars
    /\ UNCHANGED auxVars

\* pipedrive-contact-enrichment main.py lines 76-86: one update_person call
\* per source person that has update data
PipedriveProcess ==
    /\ pc = "polled"
    /\ script = "pipedrive"
    /\ LET has_update(person) == pipedrive_has_update(person["externalID"], result.people.v)
       IN  writes' = writes + Count(people, has_update)
    /\ Finish
    /\ UNCHANGED <<script, env_ok, people, max_attempts, attempts, submits, requests,
                   sleeps, observed, status_data, submit_resp, job_id, result, updated_data>>
    /\ UNCHANGED <<self_version, post_url, get_url>>
    /\ UNCHANGED batchVars
    /\ UNCHANGED auxVars

\* zoom-webinar-lead-generation-outreach main.py line 76: the poll returned
\* a list, and enriched_data.get raises AttributeError
ZoomOutreachProcess ==
    /\ pc = "polled"
    /\ script = "zoom_outreach"
    /\ Fail("AttributeError", Absent)
    /\ UNCHANGED <<script, env_ok, people, max_attempts, attempts, submits, requests,
                   sleeps, observed, status_data, submit_resp, job_id, result, writes, updated_data>>
    /\ UNCHANGED <<self_version, post_url, get_url>>
    /\ UNCHANGED batchVars
    /\ UNCHANGED auxVars

Next ==
    \/ Start
    \/ Submit
    \/ PollEnter
    \/ PollRequest
    \/ Sleep
    \/ ContactProcess
    \/ EnrichmentProcess
    \/ CompanyProcess
    \/ HubspotProcess
    \/ PipedriveProcess
    \/ ZoomOutreachProcess

Spec == Init /\ [][Next]_vars

(***************************************************************************)
(* The two Surfe clients called on their own: core SurfeService            *)
(* (start_enrichment, then poll_enrichment_status) under any configured    *)
(* version, and the tailwind SurfeService.enrich_contact.                  *)
(***************************************************************************)
Calls == {"service", "tailwind"}

\* versions a core SurfeService is constructed with
Versions == {"v1", "v2", "v3"}

InitCalls ==
    /\ script \in Calls
    /\ self_version \in IF script = "service" THEN Versions ELSE {"v1"}
    /\ env_ok = TRUE
    /\ people = <<>>
    /\ pc = "submit"
    /\ max_attempts \in 0..MaxAttemptsIn
    /\ attempts = 0
    /\ submits = 0
    /\ requests = 0
    /\ sleeps = 0
    /\ observed = <<>>
    /\ status_data = NoResponse
    /\ submit_resp = NoSubmitResponse
    /\ job_id = NoJob
    /\ result = NoResult
    /\ error = NoError
    /\ error_payload = Absent
    /\ writes = 0
    /\ exit_code = 0
    /\ updated_data = <<>>
    /\ post_url = NoUrl
    /\ get_url = NoUrl
    /\ NoBatch
    /\ NoAux

\* the poll returned: the call returns its result to the caller
CallReturn ==
    /\ pc = "polled"
    /\ script \in Calls
    /\ Finish
    /\ UNCHANGED <<script, env_ok, people, max_attempts, attempts, submits, requests,
                   sleeps, observed, status_data, submit_resp, job_id, result, writes,
                   updated_data, self_version, post_url, get_url>>
    /\ UNCHANGED batchVars
    /\ UNCHANGED auxVars

InitAll == Init \/ InitCalls

NextAll == Next \/ CallReturn

\* the entry points and the client calls together
SpecAll == InitAll /\ [][NextAll]_vars

(***************************************************************************)
(* Reconciliation on its own: contact_enrichment's main right after a      *)
(* COMPLETED response, over a bounded family of original / enriched pairs. *)
(***************************************************************************)
\* longest candidate array
MaxCandidates == 2

RegVals == {Absent, "", "a", "b"}

\* (original externalID, enriched externalID)
IdPairs == {<<"id1", "id1">>, <<"ID1", "id1">>, <<"id1", "id2">>,
            <<Absent, "a_a">>, <<"id1", Absent>>}

\* every regular field of both records absent, or "a" on both sides
Background(bg, oid, eid) ==
    LET v == IF bg = "same" THEN "a" ELSE Absent
    IN  [orig |-> [k \in OrigKeys |->
                     IF k = "externalID" THEN oid
                     ELSE IF k \in {"email", "phone"} THEN Absent ELSE v],
         enr |-> [EmptyEnriched EXCEPT
                     !.externalID = eid, !.firstName = v, !.lastName = v,
                     !.companyName = v, !.companyWebsite = v, !.jobTitle = v,
                     !.linkedinUrl = v]]

SeqsUpTo(S, n) == UNION {[1..m -> S] : m \in 0..n}

EmailObjs == [email : {Absent, "x", "y"}, validationStatus : {"VALID", "RISKY"}]
PhoneObjs == [mobilePhone : {Absent, "1", "2"}, confidenceScore : {NoScore, 40, 90}]
EmailArrays == {NoArray} \cup {Array(s) : s \in SeqsUpTo(EmailObjs, MaxCandidates)}
PhoneArrays == {NoArray} \cup {Array(s) : s \in SeqsUpTo(PhoneObjs, MaxCandidates)}

\* one regular field takes every pair of values
RegularInputs ==
    {[orig |-> [b.orig EXCEPT ![f] = o], enr |-> [b.enr EXCEPT ![f] = e]] :
        f \in {field_mapping[i] : i \in 1..Len(field_mapping)},
        o \in RegVals, e \in RegVals,
        b \in {Background(bg, ids[1], ids[2]) : bg \in {"none", "same"}, ids \in IdPairs}}

\* the email takes every original value and every candidate array
EmailInputs ==
    {[orig |-> [b.orig EXCEPT !["email"] = o], enr |-> [b.enr EXCEPT !.emails = es]] :
        o \in {Absent, "", "x", "y"}, es \in EmailArrays,
        b \in {Background(bg, "id1", "id1") : bg \in {"none", "same"}}}

\* the phone likewise
PhoneInputs ==
    {[orig |-> [b.orig EXCEPT !["phone"] = o], enr |-> [b.enr EXCEPT !.mobilePhones = ps]] :
        o \in {Absent, "", "1", "2"}, ps \in PhoneArrays,
        b \in {Background(bg, "id1", "id1") : bg \in {"none", "same"}}}

\* how one tracked field of a mixed input differs between the two records
FieldClasses == {"none", "filled", "updated"}

\* every tracked field independently unchanged ("a" / "a"), filled
\* (absent / "a") or updated ("a" / "b"); the candidate arrays hold one entry
MixedInputs ==
    {[orig |-> [k \in OrigKeys |->
                  IF k = "externalID" THEN "id1"
                  ELSE IF c[k] = "filled" THEN Absent ELSE "a"],
      enr |-> [externalID |-> "id1",
               firstName |-> IF c["firstName"] = "updated" THEN "b" ELSE "a",
               lastName |-> IF c["lastName"] = "updated" THEN "b" ELSE "a",
               companyName |-> IF c["companyName"] = "updated" THEN "b" ELSE "a",
               companyWebsite |-> IF c["companyWebsite"] = "updated" THEN "b" ELSE "a",
               jobTitle |-> IF c["jobTitle"] = "updated" THEN "b" ELSE "a",
               linkedinUrl |-> IF c["linkedinUrl"] = "updated" THEN "b" ELSE "a",
               emails |-> Array(<<[email |-> IF c["email"] = "updated" THEN "b" ELSE "a",
                                   validationStatus |-> "VALID"]>>),
               mobilePhones |-> Array(<<[mobilePhone |-> IF c["phone"] = "updated" THEN "b" ELSE "a",
                                         confidenceScore |-> 90]>>)]] :
        c \in [OrigKeys \ {"externalID"} -> FieldClasses]}

ReconcileInputs == RegularInputs \cup EmailInputs \cup PhoneInputs \cup MixedInputs

\* two originals whose external ids may collide once lower-cased, and one or
\* two enriched records that leave first name (and perhaps job title) to the
\* original they are correlated with
CollisionIds == {"id1", "ID1", "id2"}

CollisionOriginal(id, v) ==
    [k \in OrigKeys |->
        IF k = "externalID" THEN id
        ELSE IF k \in {"firstName", "jobTitle"} THEN v ELSE Absent]

CollisionEnriched == {[EmptyEnriched EXCEPT !.externalID = id, !.jobTitle = t] :
                        id \in CollisionIds, t \in {Absent, "c"}}

CollisionBatches ==
    {[origs |-> <<CollisionOriginal(i1, "a"), CollisionOriginal(i2, "b")>>, enrs |-> es] :
        i1 \in CollisionIds, i2 \in CollisionIds,
        es \in SeqsUpTo(CollisionEnriched, MaxCandidates) \ {<<>>}}

\* the batches compare_and_update_data is applied to: (people, enriched_people)
ReconcileBatches ==
    {[origs |-> <<i.orig>>, enrs |-> <<i.enr>>] : i \in ReconcileInputs}
    \cup CollisionBatches

InitReconcile ==
    \E inp \in ReconcileBatches :
        /\ script = "contact"
        /\ env_ok = TRUE
        /\ people = inp.origs
        /\ pc = "polled"
        /\ max_attempts = 0
        /\ attempts = 0
        /\ submits = 1
        /\ requests = 1
        /\ sleeps = 0
        /\ observed = <<"COMPLETED">>
        /\ status_data = [code |-> 200, status |-> "COMPLETED",
                          people |-> Array(inp.enrs), error |-> Absent]
        /\ submit_resp = [code |-> 202, id |-> "job1", enrichmentID |-> Absent]
        /\ job_id = "job1"
        /\ result = [returned |-> TRUE, people |-> Array(inp.enrs)]
        /\ error = NoError
        /\ error_payload = Absent
        /\ writes = 0
        /\ exit_code = 0
        /\ updated_data = <<>>
        /\ self_version = ServiceVersion("contact")
        /\ post_url = submit_url("contact", ServiceVersion("contact"))
        /\ get_url = status_url("contact", ServiceVersion("contact"), "job1")
        /\ NoBatch
        /\ NoAux

NextReconcile == ContactProcess

SpecReconcile == InitReconcile /\ [][NextReconcile]_vars

(***************************************************************************)
(* The per-record CRM write loops: zoom-webinar-pipedrive-deals main       *)
(* (persons and deals) and PipedriveService.create_prospects_from_lookalikes *)
(* (organizations and deals), each over a bounded list of records.         *)
(***************************************************************************)
\* longest list of records
MaxRecords == 3

Sites == {"zoom_deals", "lookalikes"}

\* enriched persons: no emails, a first email with an address, one without
BatchPersons ==
    {[EmptyEnriched EXCEPT !.emails = es] :
        es \in {NoArray,
                Array(<<[email |-> "x", validationStatus |-> "VALID"]>>),
                Array(<<[email |-> Absent, validationStatus |-> "VALID"]>>)}}

\* lookalike companies, with or without a name
BatchCompanies == {[name |-> n] : n \in {Absent, "acme"}}

\* both mains return before the loop when the list is empty
SiteRecords(s) ==
    (IF s = "zoom_deals" THEN SeqsUpTo(BatchPersons, MaxRecords)
     ELSE SeqsUpTo(BatchCompanies, MaxRecords)) \ {<<>>}

\* what the CRM does with the calls made for one record: all succeed, or
\* one of them raises
CrmAnswers == {"ok", "raise"}

\* zoom-webinar-pipedrive-deals main.py lines 218-219
primary_email(enriched_person) ==
    LET emails == enriched_person.emails.v
    IN  IF emails # <<>> THEN emails[1].email ELSE Absent

\* zoom-webinar-pipedrive-deals main.py lines 212-283: the branch the loop
\* body takes for one person
zoom_deals_record(enriched_person, crm) ==
    IF ~Truthy(primary_email(enriched_person)) THEN "skipped"
    ELSE IF crm = "raise" THEN "failed"
    ELSE "created"

\* pipedrive/service.py lines 311-357: the branch taken for one company
lookalikes_record(company, crm) ==
    IF crm = "raise" THEN "failed" ELSE "created"

record_outcome(s, rec, crm) ==
    IF s = "zoom_deals" THEN zoom_deals_record(rec, crm)
    ELSE lookalikes_record(rec, crm)

\* the handler of the loop appends the error message to a list (main.py
\* line 282) or only prints it (service.py lines 355-356)
collects_failures(s) == s = "zoom_deals"

InitBatch ==
    /\ site \in Sites
    /\ records \in SiteRecords(site)
    /\ idx = 1
    /\ created = <<>>
    /\ failed_creations = <<>>
    /\ outcomes = <<>>
    /\ reported = NoReport
    /\ script = site
    /\ self_version = IF site = "zoom_deals" THEN "v2" ELSE "v1"
    /\ env_ok = TRUE
    /\ people = <<>>
    /\ pc = "batch"
    /\ max_attempts = 0
    /\ attempts = 0
    /\ submits = 0
    /\ requests = 0
    /\ sleeps = 0
    /\ observed = <<>>
    /\ status_data = NoResponse
    /\ submit_resp = NoSubmitResponse
    /\ job_id = NoJob
    /\ result = NoResult
    /\ error = NoError
    /\ error_payload = Absent
    /\ writes = 0
    /\ exit_code = 0
    /\ updated_data = <<>>
    /\ post_url = NoUrl
    /\ get_url = NoUrl
    /\ NoAux

\* one pass of the loop body.  An error message is stood for by the position
\* of the record it names.
BatchRecord ==
    /\ pc = "batch"
    /\ idx \in 1..Len(records)
    /\ \E crm \in CrmAnswers :
         LET out == record_outcome(site, records[idx], crm)
         IN  /\ outcomes' = Append(outcomes, [rec |-> idx, outcome |-> out])
             /\ created' = IF out = "created" THEN Append(created, idx) ELSE created
             /\ failed_creations' =
                    IF out = "failed" /\ collects_failures(site)
                    THEN Append(failed_creations, idx)
                    ELSE failed_creations
    /\ idx' = idx + 1
    /\ UNCHANGED <<site, records, reported>>
    /\ UNCHANGED runVars
    /\ UNCHANGED auxVars

\* after the loop: main.py lines 285-308 print the counts and the failure
\* list; the lookalike main (lines 93-108) prints the number of prospects
BatchSummary ==
    /\ pc = "batch"
    /\ idx = Len(records) + 1
    /\ ~reported.done
    /\ reported' = [done |-> TRUE, created |-> Len(created), failures |-> failed_creations]
    /\ UNCHANGED <<site, records, idx, created, failed_creations, outcomes>>
    /\ UNCHANGED runVars
    /\ UNCHANGED auxVars

NextBatch == BatchRecord \/ BatchSummary

SpecBatch == InitBatch /\ [][NextBatch]_vars

(***************************************************************************)
(* Properties of the submit / poll pipeline (checked under Spec)           *)
(***************************************************************************)
Last(seq) == seq[Len(seq)]

\* a response that reports a status other than the two terminal ones
Waiting(st) == st \in {"IN_PROGRESS", "PENDING"}

\* the remote answered k waiting statuses and then COMPLETED
CompletedAfter(k) ==
    /\ Len(observed) = k + 1
    /\ \A i \in 1..k : Waiting(observed[i])
    /\ observed[k + 1] = "COMPLETED"

\* C1: in SurfeService.poll_enrichment_status (the Zoom-to-Outreach run) and
\* in the poll loop of contact_enrichment main, when the remote answers k
\* waiting statuses and then COMPLETED with a people payload, the poll has
\* returned exactly that payload after exactly k sleeps and k+1 requests.
C1_PollSuccess ==
    \A k \in 0..(MaxRequests + MaxAttemptsIn) :
        (/\ script \in {"zoom_outreach", "contact"}
         /\ CompletedAfter(k)
         /\ status_data.people.has)
        => /\ result.returned
           /\ result.people = status_data.people
           /\ sleeps = k
           /\ requests = k + 1

\* C1 witness: IN_PROGRESS, IN_PROGRESS, COMPLETED answered to SurfeService
\* with a non-empty payload, returned after two sleeps
C1_Witness ==
    /\ script = "zoom_outreach"
    /\ observed = <<"IN_PROGRESS", "IN_PROGRESS", "COMPLETED">>
    /\ result.returned
    /\ result.people.v # <<>>
    /\ sleeps = 2

\* the scripts whose poll has a FAILED branch
FailingPolls == {"zoom_outreach", "hubspot", "pipedrive", "contact"}

AllNonTerminal ==
    /\ \A i \in 1..Len(observed) : observed[i] \notin {"COMPLETED", "FAILED"}
    /\ observed # <<>> => status_data.code = 200

\* C3: poll_enrichment_status called with max_attempts = N never issues an
\* (N+1)-th status request; the timeout error is raised only after exactly N
\* requests that were all non-terminal, with no records returned; and once N
\* non-terminal responses are in and the run is over, it ended in the timeout.
C3_PollTimeout ==
    Bounded(script) =>
        /\ requests <= max_attempts
        /\ error = "EnrichmentTimeout" =>
              /\ requests = max_attempts
              /\ sleeps = max_attempts
              /\ AllNonTerminal
              /\ ~result.returned
        /\ (job_id # NoJob /\ pc = "done" /\ AllNonTerminal /\ requests = max_attempts)
              => error = "EnrichmentTimeout"

\* C3 witness: three non-terminal responses with max_attempts = 3
C3_Witness ==
    /\ script = "zoom_outreach"
    /\ max_attempts = 3
    /\ error = "EnrichmentTimeout"
    /\ observed = <<"IN_PROGRESS", "IN_PROGRESS", "IN_PROGRESS">>

\* C4 (as claimed): whenever the submit request is answered with a status
\* code other than 202, submit fails with an error, no job id is returned
\* and no status request is issued.
C4_SubmitRequestFailure ==
    (submits > 0 /\ submit_resp.code # 202)
    => /\ error # NoError
       /\ job_id = NoJob
       /\ requests = 0

\* the job identifier field the script reads from the submit response
ExpectedId(s, resp) == IF ServiceVersion(s) = "v2" THEN resp.enrichmentID ELSE resp.id

\* C5: when the submit response is accepted (202) but lacks the job
\* identifier field the script reads, the run ends in an error, no job id
\* is returned (not an empty or null one either) and no status request is
\* issued.
C5_SubmitProtocolFailure ==
    (submits > 0 /\ submit_resp.code = 202 /\ ExpectedId(script, submit_resp) = Absent)
    => /\ error \in {"KeyError", "MissingId"}
       /\ job_id = NoJob
       /\ pc = "done"
       /\ requests = 0

\* C5 witness: contact_enrichment got 202 without "id" and stopped
C5_Witness ==
    /\ script = "contact"
    /\ submits = 1
    /\ submit_resp.code = 202
    /\ submit_resp.id = Absent
    /\ error = "KeyError"

\* C6 (as claimed): a destination write happens only in a run whose last
\* observed status is COMPLETED.
C6_WriteAfterComplete ==
    writes > 0 => (observed # <<>> /\ Last(observed) = "COMPLETED")

(***************************************************************************)
(* Properties of the reconciliation (checked under SpecReconcile)          *)
(***************************************************************************)
\* the tracked fields, by the key of the original record
TrackedFields == {"firstName", "lastName", "companyName", "companyWebsite",
                  "jobTitle", "linkedinUrl", "email", "phone"}

\* the enriched record of the run, the original it is correlated with, and
\* the output row made of them
TheEnriched == result.people.v[1]
TheOriginal == original_map_get(people, Lower(Get(TheEnriched, "externalID", "")))
TheRow == updated_data[1]
Reconciled == pc = "done" /\ Len(updated_data) = 1

\* the enriched value of a tracked field: the scalar, or the best candidate
EnrichedValue(f) ==
    CASE f = "email" -> select_email(TheEnriched)
      [] f = "phone" -> select_phone(TheEnriched)
      [] OTHER -> Get(TheEnriched, f, "")

\* the enriched side of a tracked field holds nothing: scalar missing or
\* empty, candidate array missing or empty
EnrichedEmpty(f) ==
    CASE f = "email" -> TheEnriched.emails.v = <<>>
      [] f = "phone" -> TheEnriched.mobilePhones.v = <<>>
      [] OTHER -> ~Truthy(TheEnriched[f])

\* position of a piece in a status string, 0 if it is not there
PosOf(status, piece) ==
    IF \E i \in 1..Len(status) : status[i] = piece
    THEN CHOOSE i \in 1..Len(status) : status[i] = piece
    ELSE 0

\* the names listed in the "Filled" clause of a status string
FilledNames(status) ==
    LET p == IF PosOf(status, "; Filled: ") # 0 THEN PosOf(status, "; Filled: ")
             ELSE PosOf(status, "Filled: ")
    IN  IF p = 0 THEN {} ELSE {status[i] : i \in (p + 1)..Len(status)} \ {", "}

\* the names listed in the "Updated" clause of a status string
UpdatedNames(status) ==
    LET p == PosOf(status, "Updated: ")
        q == IF PosOf(status, "; Filled: ") # 0 THEN PosOf(status, "; Filled: ")
             ELSE Len(status) + 1
    IN  IF p = 0 THEN {} ELSE {status[i] : i \in (p + 1)..(q - 1)} \ {", "}

\* C7 (as claimed): reconciling an original with an enriched record whose
\* payload is all-empty gives an output row with the original's value in
\* every tracked field and the status "No changes".
C7_EmptyEnrichmentIdentity ==
    (Reconciled /\ \A f \in TrackedFields : EnrichedEmpty(f))
    => /\ \A f \in TrackedFields : TheRow[f] = Get(TheOriginal, f, "")
       /\ TheRow.status = <<"No changes">>

\* C8: a tracked field that is empty or absent in the original and whose
\* enriched (best-candidate) value is non-empty is listed under "Filled",
\* not under "Updated", and the output row carries the enriched value.
C8_Filled ==
    Reconciled =>
        \A f \in TrackedFields :
            (~Truthy(Get(TheOriginal, f, "")) /\ Truthy(EnrichedValue(f)))
            => /\ csv_field(f) \in FilledNames(TheRow.status)
               /\ csv_field(f) \notin UpdatedNames(TheRow.status)
               /\ TheRow[f] = EnrichedValue(f)

\* C8 witness: no original job title, enriched jobTitle present: the row has
\* the enriched title and the status says "Filled: Job Title"
C8_Witness ==
    /\ Reconciled
    /\ ~Truthy(TheOriginal["jobTitle"])
    /\ TheEnriched.jobTitle = "a"
    /\ TheRow.jobTitle = "a"
    /\ TheRow.status = <<"Filled: ", "Job Title">>

\* C9: a tracked field whose original and enriched values are both non-empty
\* and unequal is listed under "Updated", not under "Filled", and the output
\* row carries the enriched value, not the original.
C9_Updated ==
    Reconciled =>
        \A f \in TrackedFields :
            (/\ Truthy(Get(TheOriginal, f, ""))
             /\ Truthy(EnrichedValue(f))
             /\ Get(TheOriginal, f, "") # EnrichedValue(f))
            => /\ csv_field(f) \in UpdatedNames(TheRow.status)
               /\ csv_field(f) \notin FilledNames(TheRow.status)
               /\ TheRow[f] = EnrichedValue(f)
               /\ TheRow[f] # TheOriginal[f]

\* C9 witness: original email "x", best candidate "y": the row has "y" and
\* the status lists Email Address as updated
C9_Witness ==
    /\ Reconciled
    /\ TheOriginal["email"] = "x"
    /\ select_email(TheEnriched) = "y"
    /\ TheRow.email = "y"
    /\ "Email Address" \in UpdatedNames(TheRow.status)

\* C10 (as claimed): whenever the enriched side of a tracked field is empty
\* or absent (a key with an empty value and an empty candidate array
\* included), the output row retains the original's value for that field.
C10_NeverDeletes ==
    Reconciled =>
        \A f \in TrackedFields :
            EnrichedEmpty(f) => TheRow[f] = Get(TheOriginal, f, "")

(***************************************************************************)
(* Properties of the status string and of the candidate selection          *)
(* (checked under SpecReconcile)                                           *)
(***************************************************************************)
\* the tracked fields in the order the status names them
StatusOrder == field_mapping \o <<"email", "phone">>

\* CSV names of the tracked fields that satisfy Test, in status order
NamesWhere(Test(_)) ==
    LET fs == SelectSeq(StatusOrder, Test)
    IN  [i \in 1..Len(fs) |-> csv_field(fs[i])]

IsUpdated(f) ==
    /\ Truthy(Get(TheOriginal, f, ""))
    /\ Truthy(EnrichedValue(f))
    /\ Get(TheOriginal, f, "") # EnrichedValue(f)

IsFilled(f) == ~Truthy(Get(TheOriginal, f, "")) /\ Truthy(EnrichedValue(f))

\* the pieces of names joined by ", "
Separated(names) ==
    [i \in 1..(2 * Len(names) - 1) |->
        IF i % 2 = 1 THEN names[(i + 1) \div 2] ELSE ", "]

\* C11: the status is exactly "Updated: <names>; Filled: <names>" when
\* fields were updated and fields were filled, only the "Updated: " clause
\* when nothing was filled, only the "Filled: " clause when nothing was
\* updated, and "No changes" if and only if neither list has a name; the
\* names of a clause are joined by ", ".
C11_StatusShape ==
    Reconciled =>
        LET updates == NamesWhere(IsUpdated)
            filled_gaps == NamesWhere(IsFilled)
        IN  /\ (updates # <<>> /\ filled_gaps # <<>>) =>
                  TheRow.status = <<"Updated: ">> \o Separated(updates)
                                  \o <<"; Filled: ">> \o Separated(filled_gaps)
            /\ (updates # <<>> /\ filled_gaps = <<>>) =>
                  TheRow.status = <<"Updated: ">> \o Separated(updates)
            /\ (updates = <<>> /\ filled_gaps # <<>>) =>
                  TheRow.status = <<"Filled: ">> \o Separated(filled_gaps)
            /\ (TheRow.status = <<"No changes">>) <=>
                  (updates = <<>> /\ filled_gaps = <<>>)

\* C11 witness: first and last name updated, job title and email filled
C11_Witness ==
    /\ Reconciled
    /\ TheRow.status = <<"Updated: ", "First Name", ", ", "Last Name",
                         "; Filled: ", "Job Title", ", ", "Email Address">>

\* C12 (as claimed): for every non-empty list of email candidates the
\* selected email is the address of an entry whose validationStatus is VALID
\* whenever at least one entry is VALID, and otherwise the address of the
\* first entry.
C12_EmailSelection ==
    (Reconciled /\ TheEnriched.emails.v # <<>>) =>
        LET es == TheEnriched.emails.v
            valid == {i \in 1..Len(es) : es[i].validationStatus = "VALID"}
        IN  IF valid # {}
            THEN \E i \in valid : TheRow.email = Get(es[i], "email", "")
            ELSE TheRow.email = Get(es[1], "email", "")

\* the confidence score of a candidate, a missing score counting as 0
ScoreOf(x) == IF x.confidenceScore = NoScore THEN 0 ELSE x.confidenceScore

\* C13: for every non-empty list of phone candidates the selected phone is
\* the number of an entry whose confidenceScore is maximal in the list,
\* a missing score counting as 0.
C13_PhoneSelection ==
    (Reconciled /\ TheEnriched.mobilePhones.v # <<>>) =>
        LET ps == TheEnriched.mobilePhones.v
        IN  \E i \in 1..Len(ps) :
                /\ \A j \in 1..Len(ps) : ScoreOf(ps[j]) <= ScoreOf(ps[i])
                /\ TheRow.phone = Get(ps[i], "mobilePhone", "")

\* C13 witness: the better candidate comes second (40: "1", 90: "2") and the
\* row has "2"
C13_Witness ==
    /\ Reconciled
    /\ TheEnriched.mobilePhones.v =
          <<[mobilePhone |-> "1", confidenceScore |-> 40],
            [mobilePhone |-> "2", confidenceScore |-> 90]>>
    /\ TheRow.phone = "2"

\* positions of the originals whose external id, lower-cased, is id
SharingId(id) ==
    {j \in 1..Len(people) : Lower(Get(people[j], "externalID", "")) = id}

\* C14: when two or more originals share the same external id (compared
\* lower-cased), compare_and_update_data raises no error, gives one row per
\* enriched record, and correlates every enriched record with that id to the
\* last such original in input order: the fields the enriched record lacks
\* come from that original.
C14_CollisionLastWins ==
    pc = "done" =>
        \A i \in 1..Len(result.people.v) :
            LET enriched == result.people.v[i]
                sharing == SharingId(Lower(Get(enriched, "externalID", "")))
                last == CHOOSE j \in sharing : \A k \in sharing : k <= j
            IN  Cardinality(sharing) >= 2 =>
                    /\ error = NoError
                    /\ Len(updated_data) = Len(result.people.v)
                    /\ \A n \in 1..Len(field_mapping) :
                          enriched[field_mapping[n]] = Absent =>
                              updated_data[i][field_mapping[n]] =
                                  Get(people[last], field_mapping[n], "")

\* C14 witness: originals "id1" (first name "a") and "ID1" (first name "b"),
\* one enriched record "id1" without names: its row has first name "b"
C14_Witness ==
    /\ pc = "done"
    /\ Len(people) = 2
    /\ people[1].externalID = "id1" /\ people[1].firstName = "a"
    /\ people[2].externalID = "ID1" /\ people[2].firstName = "b"
    /\ Len(result.people.v) = 1
    /\ result.people.v[1].externalID = "id1"
    /\ result.people.v[1].firstName = Absent
    /\ error = NoError
    /\ updated_data[1].firstName = "b"

(***************************************************************************)
(* Properties of the error handling of a run (checked under Spec)          *)
(***************************************************************************)
\* what contact_enrichment's main handles as an error: no API key, a submit
\* answered with a non-202 status or without an id, a status request
\* answered with a non-200 status, a FAILED job
ContactErrorHappened ==
    \/ ~env_ok
    \/ submits = 1 /\ (submit_resp.code # 202 \/ submit_resp.id = Absent)
    \/ requests > 0 /\ (status_data.code # 200 \/ status_data.status = "FAILED")

\* C15: contact_enrichment's main returns 0 exactly when the pipeline ran to
\* its end without a handled error, and returns 1 on every handled error
\* (missing API key, submit failure, missing job id, status-request failure,
\* FAILED job); it never returns 0 after an error was caught.
C15_ContactExitCode ==
    (script = "contact" /\ pc = "done") =>
        /\ ContactErrorHappened => exit_code = 1
        /\ error # NoError => exit_code = 1
        /\ exit_code \in {0, 1}
        /\ exit_code = 0 <=>
              (/\ error = NoError
               /\ result.returned
               /\ Last(observed) = "COMPLETED")

\* C15 witness: the job was reported FAILED and main returned 1
C15_Witness ==
    /\ script = "contact"
    /\ pc = "done"
    /\ error = "EnrichmentFailed"
    /\ observed # <<>>
    /\ Last(observed) = "FAILED"
    /\ exit_code = 1

\* C16 (as claimed): in the HubSpot, Pipedrive-enrichment and
\* Zoom-to-Outreach entry points a request error, a missing job id, a FAILED
\* job or a polling timeout ends the process with a non-zero exit status.
C16_ErrorsExitNonZero ==
    (/\ script \in {"hubspot", "pipedrive", "zoom_outreach"}
     /\ pc = "done"
     /\ error \in {"RequestError", "KeyError", "EnrichmentFailed", "EnrichmentTimeout"})
    => exit_code # 0

\* an error was raised or the job was reported failed: the run is over
RunStopped ==
    \/ error # NoError
    \/ observed # <<>> /\ Last(observed) = "FAILED"

\* C17: one run issues at most one submit request, and once a request
\* error, a missing job id, a FAILED status or a timeout has occurred it
\* issues no further request to the enrichment API.
C17_NoRetry ==
    /\ [](submits <= 1)
    /\ [][RunStopped => (submits' = submits /\ requests' = requests)]_vars

\* C17 witness: a waiting status, then FAILED: the run ended with one
\* submit and two status requests
C17_Witness ==
    /\ pc = "done"
    /\ error = "EnrichmentFailed"
    /\ observed = <<"IN_PROGRESS", "FAILED">>
    /\ submits = 1
    /\ requests = 2

(***************************************************************************)
(* Properties of the poll loops and of the version switch                  *)
(* (checked under SpecAll)                                                 *)
(***************************************************************************)
\* the poll loops written as `while True`
UnboundedLoops == {"contact", "enrichment", "company", "tailwind"}

\* the statuses the loop of script s treats as terminal: COMPLETED and
\* FAILED in contact_enrichment, any status but IN_PROGRESS in the others
\* (a missing status included where it is read with .get)
LoopTerminal(s, st) ==
    CASE s = "contact" -> st \in {"COMPLETED", "FAILED"}
      [] s = "enrichment" -> st # Absent /\ st # "IN_PROGRESS"
      [] OTHER -> st # "IN_PROGRESS"

InLoop == pc \in {"request", "sleep"}
LeftLoop == requests > 0 /\ ~InLoop
TerminalObserved == \E i \in 1..Len(observed) : LoopTerminal(script, observed[i])

CoreService == script \in {"service", "zoom_outreach"}

\* C20: the core SurfeService chooses by its configured version alone: with
\* "v2" start_enrichment posts to /people/enrich and returns the response's
\* "enrichmentID", and polling uses /people/enrich/<id>; with any other
\* version it posts to /people/enrichments/bulk, returns "id", and polling
\* uses /people/enrichments/bulk/<id>; the fields the response contains
\* never change the choice (the other field being there alone is an error).
C20_VersionSwitch ==
    CoreService =>
        /\ submits > 0 =>
              /\ post_url = [version |-> self_version,
                             path |-> IF self_version = "v2" THEN "/people/enrich"
                                      ELSE "/people/enrichments/bulk",
                             id |-> Absent]
              /\ job_id # NoJob =>
                    job_id = IF self_version = "v2" THEN submit_resp.enrichmentID
                             ELSE submit_resp.id
              /\ (submit_resp.code = 202
                  /\ (IF self_version = "v2" THEN submit_resp.enrichmentID
                      ELSE submit_resp.id) = Absent)
                 => (job_id = NoJob /\ error = "KeyError" /\ requests = 0)
        /\ get_url # NoUrl =>
              get_url = [version |-> self_version,
                         path |-> IF self_version = "v2" THEN "/people/enrich/"
                                  ELSE "/people/enrichments/bulk/",
                         id |-> job_id]
        /\ requests > 0 => get_url # NoUrl

\* C20 witness: a v1 service whose submit response carries both id fields
\* took "id" and polls the bulk URL with it
C20_Witness ==
    /\ script = "service"
    /\ self_version = "v1"
    /\ submit_resp.id = "job1"
    /\ submit_resp.enrichmentID = "job2"
    /\ job_id = "job1"
    /\ requests > 0
    /\ get_url = [version |-> "v1", path |-> "/people/enrichments/bulk/", id |-> "job1"]

(***************************************************************************)
(* Properties of the per-record write loops (checked under SpecBatch)      *)
(***************************************************************************)
\* how often record i is in a list of record positions
Times(list, i) == Cardinality({k \in 1..Len(list) : list[k] = i})

\* C18 (as claimed): a failure while writing one record is caught, its
\* error message is in the failure list reported at the end, every later
\* record is still attempted, and each record is counted exactly once as
\* created, skipped (no email) or failed.
C18_FailureIsolation ==
    reported.done =>
        /\ Len(outcomes) = Len(records)
        /\ \A i \in 1..Len(records) :
              /\ outcomes[i].rec = i
              /\ outcomes[i].outcome = "failed" => Times(reported.failures, i) = 1
              /\ Times(created, i) + Times(failed_creations, i)
                 + (IF outcomes[i].outcome = "skipped" THEN 1 ELSE 0) = 1

(***************************************************************************)
(* Properties of the Zoom-to-Outreach run (checked under Spec)             *)
(***************************************************************************)
\* the person has at least one VALID email candidate
HasValidEmail(person) ==
    \E i \in 1..Len(person.emails.v) : person.emails.v[i].validationStatus = "VALID"

\* C21 (as claimed): in the Zoom-to-Outreach script, once the poll has
\* returned on COMPLETED with the list of enriched people, the script goes
\* on to process every person of the list without an error, and the persons
\* with a VALID email are written to Outreach.
C21_OutreachCompletion ==
    (script = "zoom_outreach" /\ pc = "done" /\ result.returned) =>
        /\ error = NoError
        /\ writes = Cardinality({i \in 1..Len(result.people.v) :
                                    HasValidEmail(result.people.v[i])})

(***************************************************************************)
(* Further properties of the reconciliation (checked under SpecReconcile)  *)
(***************************************************************************)
\* C28 (as claimed): for every non-empty list of email candidates the
\* loop-based selection of compare_and_update_data and the sort-based
\* selection of prepare_hubspot_update_data and
\* prepare_person_update_from_surfe select the same address, a missing or
\* empty address on both sides counting as the same (no address).
C28_EmailSelectionsAgree ==
    (Reconciled /\ TheEnriched.emails.v # <<>>) =>
        LET by_loop == TheRow.email
            by_sort == sorted_select_email(TheEnriched)
        IN  (Truthy(by_loop) \/ Truthy(by_sort)) => by_loop = by_sort

\* C29: compare_and_update_data returns exactly one output row per enriched
\* record, in the enriched records' order (row i carries the values enriched
\* record i has), so an original for which no enriched record came back has
\* no row.
C29_RowsFollowEnriched ==
    pc = "done" =>
        /\ Len(updated_data) = Len(result.people.v)
        /\ \A i \in 1..Len(updated_data) :
              \A n \in 1..Len(field_mapping) :
                  result.people.v[i][field_mapping[n]] # Absent =>
                      updated_data[i][field_mapping[n]] =
                          result.people.v[i][field_mapping[n]]

\* C29 witness: originals "id1" and "id2", one enriched record "id1" with a
\* job title: one row, carrying that title
C29_Witness ==
    /\ pc = "done"
    /\ Len(people) = 2
    /\ people[1].externalID = "id1"
    /\ people[2].externalID = "id2"
    /\ Len(result.people.v) = 1
    /\ result.people.v[1].externalID = "id1"
    /\ result.people.v[1].jobTitle = "c"
    /\ Len(updated_data) = 1
    /\ updated_data[1].jobTitle = "c"

(***************************************************************************)
(* Functions applied on their own.  Init draws the function and its       *)
(* argument, one action per function applies it.                          *)
(***************************************************************************)

\* no script, write loop, listing or webhook runs
NoRun ==
    /\ script = "none"
    /\ self_version = "v1"
    /\ env_ok = TRUE
    /\ people = <<>>
    /\ pc = "idle"
    /\ max_attempts = 0
    /\ attempts = 0
    /\ submits = 0
    /\ requests = 0
    /\ sleeps = 0
    /\ observed = <<>>
    /\ status_data = NoResponse
    /\ submit_resp = NoSubmitResponse
    /\ job_id = NoJob
    /\ result = NoResult
    /\ error = NoError
    /\ error_payload = Absent
    /\ writes = 0
    /\ exit_code = 0
    /\ updated_data = <<>>
    /\ post_url = NoUrl
    /\ get_url = NoUrl

\* x in a list
Contains(seq, x) == \E i \in 1..Len(seq) : seq[i] = x

MaxSeniorities == 2
MaxTopicWords == 2

\* seniorities as the enrichment returns them, and the words of a topic
SeniorityNames == {"C-Level", "VP", "Manager", "Specialist"}
TopicWords == {"Enterprise", "Intro"}

\* a missing seniorities key and a topic of None are [has |-> FALSE]
DealInputs ==
    [enriched_person :
        [seniorities : {NoArray} \cup [has : {TRUE}, v : SeqsUpTo(SeniorityNames, MaxSeniorities)]],
     webinar_topic : {NoArray} \cup [has : {TRUE}, v : SeqsUpTo(TopicWords, MaxTopicWords)]]

base_value == 5000

\* keyword in webinar_topic.lower(): no word of the model holds a keyword
\* as a proper part, so the substring test is a test on the words
topic_has_keyword(webinar_topic) ==
    \E i \in 1..Len(webinar_topic.v) :
        Lower(webinar_topic.v[i]) \in {"enterprise", "scale", "growth"}

\* the value is kept in hundredths so that *= 2.5 and *= 1.5 stay exact;
\* int() drops the fraction.  A test `"c-level" or ... in seniorities` is
\* Python's `or` of the bare strings and one membership test.
determine_deal_value(enriched_person, webinar_topic) ==
    LET given == IF enriched_person.seniorities.has
                 THEN enriched_person.seniorities.v ELSE <<>>
        seniorities == [i \in 1..Len(given) |-> Lower(given[i])]
        start == base_value * 100
        by_seniority ==
            IF Truthy("c-level") \/ Truthy("director") \/ Truthy("founder")
                  \/ Contains(seniorities, "board member")
            THEN start * 3
            ELSE IF Truthy("vp") \/ Truthy("head") \/ Truthy("owner")
                       \/ Contains(seniorities, "partner")
                 THEN (start * 25) \div 10
                 ELSE IF Contains(seniorities, "manager")
                      THEN (start * 15) \div 10
                      ELSE start
        by_topic ==
            IF webinar_topic.has /\ webinar_topic.v # <<>>
                  /\ topic_has_keyword(webinar_topic)
            THEN (by_seniority * 15) \div 10
            ELSE by_seniority
    IN  by_topic \div 100

MaxRegistrants == 2

\* registrants as Zoom lists them: an address always holds one "@"
Registrants ==
    [first_name : {"", "a"}, last_name : {Absent, "b"},
     org : {Absent, "", "o"}, email : {Absent, "u@x.com", "v@y.org"}]

\* email.split("@")[1]
SplitAt1(email) ==
    CASE email = "u@x.com" -> "x.com"
      [] email = "v@y.org" -> "y.org"

\* ZoomService.process_webinar_registrants
RECURSIVE process_webinar_registrants(_)
process_webinar_registrants(registrants) ==
    IF registrants = <<>> THEN <<>>
    ELSE LET registrant == Head(registrants)
             rest == process_webinar_registrants(Tail(registrants))
         IN  IF ~(Truthy(registrant.first_name) /\ Truthy(registrant.last_name)
                    /\ (Truthy(registrant.org) \/ Truthy(registrant.email)))
             THEN rest
             ELSE LET companyDomain == IF Truthy(registrant.email)
                                       THEN SplitAt1(registrant.email)
                                       ELSE Absent
                  IN  <<[firstName |-> Get(registrant, "first_name", ""),
                         lastName |-> Get(registrant, "last_name", ""),
                         companyName |-> Get(registrant, "org", ""),
                         companyDomain |-> companyDomain]>> \o rest

\* a mock that skips registrants without an org
RECURSIVE mock_requiring_org(_)
mock_requiring_org(registrants) ==
    IF registrants = <<>> THEN <<>>
    ELSE LET registrant == Head(registrants)
             rest == mock_requiring_org(Tail(registrants))
         IN  IF ~(Truthy(registrant.first_name) /\ Truthy(registrant.last_name)
                    /\ Truthy(registrant.org))
             THEN rest
             ELSE <<[firstName |-> registrant.first_name,
                     lastName |-> registrant.last_name,
                     companyName |-> registrant.org,
                     companyDomain |-> IF Truthy(registrant.email)
                                       THEN SplitAt1(registrant.email)
                                       ELSE Absent]>> \o rest

\* MockZoomService.process_webinar_registrants
RECURSIVE mock_process_webinar_registrants(_)
mock_process_webinar_registrants(registrants) ==
    IF registrants = <<>> THEN <<>>
    ELSE LET registrant == Head(registrants)
             rest == mock_process_webinar_registrants(Tail(registrants))
         IN  IF ~(Truthy(registrant.first_name) /\ Truthy(registrant.last_name)
                    /\ (Truthy(registrant.org) \/ Truthy(registrant.email)))
             THEN rest
             ELSE LET companyDomain == IF Truthy(registrant.email)
                                       THEN SplitAt1(registrant.email)
                                       ELSE Absent
                  IN  <<[firstName |-> Get(registrant, "first_name", ""),
                         lastName |-> Get(registrant, "last_name", ""),
                         companyName |-> Get(registrant, "org", ""),
                         companyDomain |-> companyDomain]>> \o rest

MaxPersons == 2

\* str(person["id"]) for the ids of the model
Str(n) == <<"1", "2", "3", "4", "5", "6", "7", "8", "9">>[n]

\* the org_id of a Pipedrive person: an object with a name, or anything else
\* (an id, null), for which the organization is asked from Pipedrive; the
\* answer then carries a name or the request fails (raise_for_status)
OrgIds ==
    [kind : {"dict"}, name : {"", "o"}, lookup_ok : {TRUE}]
        \cup [kind : {"id"}, name : {"", "o"}, lookup_ok : {TRUE}]
        \cup [kind : {"id"}, name : {""}, lookup_ok : {FALSE}]

\* the first truthy value of person["email"], or Absent when there is none
PipedrivePersons ==
    [first_name : {"", "a"}, last_name : {"", "b"}, org_id : OrgIds,
     email : {Absent, "u@x.com"}]

\* lists of records whose id is their position
WithIds(recs) == [i \in 1..Len(recs) |-> [id |-> i, data |-> recs[i]]]

\* email.split("@")[-1]
SplitAtLast(email) ==
    CASE email = "u@x.com" -> "x.com"
      [] OTHER -> ""

NoRaise == "none"

\* one pass of the loop of format_persons_for_surfe: what it appends, or the
\* exception that leaves the function
format_person(person) ==
    LET p == person.data
        email == IF p.email = Absent THEN "" ELSE p.email
        email_domain == IF Truthy(email) THEN SplitAtLast(email) ELSE ""
        has_website == Truthy(email_domain)
        base == [externalID |-> Str(person.id),
                 firstName |-> p.first_name,
                 lastName |-> p.last_name,
                 companyName |-> p.org_id.name,
                 companyWebsite |-> IF has_website THEN email_domain ELSE Absent]
    IN  IF p.org_id.kind # "dict" /\ ~p.org_id.lookup_ok
        THEN [raised |-> "HTTPError", append |-> FALSE, person_data |-> base]
        ELSE IF Truthy(base.firstName) /\ Truthy(base.lastName) /\ Truthy(base.companyName)
             THEN [raised |-> NoRaise, append |-> TRUE, person_data |-> base]
             ELSE IF Truthy(base.firstName) /\ Truthy(base.lastName)
                  THEN IF ~has_website
                       THEN [raised |-> "KeyError", append |-> FALSE, person_data |-> base]
                       ELSE [raised |-> NoRaise, append |-> TRUE, person_data |-> base]
                  ELSE [raised |-> NoRaise, append |-> FALSE, person_data |-> base]

\* PipedriveService.format_persons_for_surfe
RECURSIVE format_persons_for_surfe(_, _)
format_persons_for_surfe(persons, collected) ==
    IF persons = <<>> THEN [raised |-> NoRaise, people |-> collected]
    ELSE LET one == format_person(Head(persons))
         IN  IF one.raised # NoRaise
             THEN [raised |-> one.raised, people |-> <<>>]
             ELSE format_persons_for_surfe(Tail(persons),
                      IF one.append THEN Append(collected, one.person_data) ELSE collected)

\* HubSpot contacts: an unset property is Absent
HubspotContacts ==
    [firstname : {Absent, "a"}, lastname : {Absent, "b"}, company : {Absent, "o"},
     hs_email_domain : {Absent, "x.com"}, hs_linkedin_url : {Absent, "li"}]

\* prepare_surfe_payload: the people of the payload (enrichmentType and the
\* dated listName do not depend on the contacts)
RECURSIVE prepare_surfe_payload(_, _)
prepare_surfe_payload(hubspot_contacts, collected) ==
    IF hubspot_contacts = <<>> THEN [raised |-> NoRaise, people |-> collected]
    ELSE LET properties == Head(hubspot_contacts).data
             person == [externalID |-> Head(hubspot_contacts).id,
                        firstName |-> Get(properties, "firstname", ""),
                        lastName |-> Get(properties, "lastname", ""),
                        companyName |-> Get(properties, "company", ""),
                        companyWebsite |-> Get(properties, "hs_email_domain", ""),
                        linkedinUrl |-> Get(properties, "hs_linkedin_url", "")]
             enough ==
                 \/ Truthy(person.linkedinUrl)
                 \/ (Truthy(person.firstName) /\ Truthy(person.lastName)
                        /\ Truthy(person.companyName))
                 \/ (Truthy(person.firstName) /\ Truthy(person.lastName)
                        /\ Truthy(person.companyWebsite))
         IN  prepare_surfe_payload(Tail(hubspot_contacts),
                 IF enough THEN Append(collected, person) ELSE collected)

PureFns == {"determine_deal_value", "process_webinar_registrants",
            "format_persons_for_surfe", "prepare_surfe_payload"}

PureArgs(f) ==
    CASE f = "determine_deal_value" -> DealInputs
      [] f = "process_webinar_registrants" -> SeqsUpTo(Registrants, MaxRegistrants)
      [] f = "format_persons_for_surfe" ->
            {WithIds(l) : l \in SeqsUpTo(PipedrivePersons, MaxPersons)}
      [] f = "prepare_surfe_payload" ->
            {WithIds(l) : l \in SeqsUpTo(HubspotContacts, MaxPersons)}

InitPure ==
    /\ fn \in PureFns
    /\ arg \in PureArgs(fn)
    /\ ret = <<>>
    /\ called = FALSE
    /\ NoRun
    /\ NoBatch
    /\ NoPages
    /\ NoHook

ApplyDealValue ==
    /\ fn = "determine_deal_value"
    /\ ~called
    /\ called' = TRUE
    /\ ret' = determine_deal_value(arg.enriched_person, arg.webinar_topic)
    /\ UNCHANGED <<fn, arg>>
    /\ UNCHANGED <<runVars, batchVars, pageVars, hookVars>>

\* the same registrants given to the mock and to the real service
ApplyProcessRegistrants ==
    /\ fn = "process_webinar_registrants"
    /\ ~called
    /\ called' = TRUE
    /\ ret' = [mock |-> mock_process_webinar_registrants(arg),
               real |-> process_webinar_registrants(arg)]
    /\ UNCHANGED <<fn, arg>>
    /\ UNCHANGED <<runVars, batchVars, pageVars, hookVars>>

ApplyFormatPersons ==
    /\ fn = "format_persons_for_surfe"
    /\ ~called
    /\ called' = TRUE
    /\ ret' = format_persons_for_surfe(arg, <<>>)
    /\ UNCHANGED <<fn, arg>>
    /\ UNCHANGED <<runVars, batchVars, pageVars, hookVars>>

ApplyPreparePayload ==
    /\ fn = "prepare_surfe_payload"
    /\ ~called
    /\ called' = TRUE
    /\ ret' = prepare_surfe_payload(arg, <<>>)
    /\ UNCHANGED <<fn, arg>>
    /\ UNCHANGED <<runVars, batchVars, pageVars, hookVars>>

NextPure ==
    \/ ApplyDealValue
    \/ ApplyProcessRegistrants
    \/ ApplyFormatPersons
    \/ ApplyPreparePayload

SpecPure == InitPure /\ [][NextPure]_vars

\* the seniority tier of a person: 1 for c-level, director, founder or board
\* member, 2 for vp, head, owner or partner, 3 for manager, 4 otherwise
TierOf(person) ==
    LET given == person.seniorities.v
        has(S) == \E i \in 1..Len(given) : Lower(given[i]) \in S
    IN  IF has({"c-level", "director", "founder", "board member"}) THEN 1
        ELSE IF has({"vp", "head", "owner", "partner"}) THEN 2
        ELSE IF has({"manager"}) THEN 3
        ELSE 4

TierValue(tier, with_topic) ==
    LET v == CASE tier = 1 -> 15000 [] tier = 2 -> 12500 [] tier = 3 -> 7500 [] OTHER -> 5000
    IN  IF with_topic THEN (v * 3) \div 2 ELSE v

\* C22: determine_deal_value returns 5000 times 3, 2.5, 1.5 or 1 by the
\* highest seniority tier of the person, times a further 1.5 when the topic
\* holds enterprise, scale or growth
C22_DealValueBySeniority ==
    (fn = "determine_deal_value" /\ called) =>
        ret = TierValue(TierOf(arg.enriched_person),
                        topic_has_keyword(arg.webinar_topic))

\* a registrant has a first name, a last name and an org or an email
HasEnough(registrant) ==
    /\ registrant.first_name \notin {Absent, ""}
    /\ registrant.last_name \notin {Absent, ""}
    /\ (registrant.org \notin {Absent, ""} \/ registrant.email \notin {Absent, ""})

Mapped(registrant) ==
    [firstName |-> registrant.first_name,
     lastName |-> registrant.last_name,
     companyName |-> IF registrant.org = Absent THEN "" ELSE registrant.org,
     companyDomain |-> IF registrant.email = Absent THEN Absent
                       ELSE SplitAt1(registrant.email)]

\* C24: the mock and the real process_webinar_registrants return the same
\* list: the registrants with a first name, a last name and an org or an
\* email, in input order, each mapped to the four output fields
C24_MockAgreesWithReal ==
    (fn = "process_webinar_registrants" /\ called) =>
        LET kept == SelectSeq(arg, HasEnough)
        IN  /\ ret.mock = ret.real
            /\ ret.real = [i \in 1..Len(kept) |-> Mapped(kept[i])]

\* a registrant without a last name is dropped, one with an email and no org
\* is kept with the domain of the email
C24_Witness ==
    /\ fn = "process_webinar_registrants"
    /\ called
    /\ Len(arg) = 2
    /\ arg[1].last_name = Absent
    /\ arg[2] = [first_name |-> "a", last_name |-> "b", org |-> Absent, email |-> "u@x.com"]
    /\ ret.mock = <<[firstName |-> "a", lastName |-> "b", companyName |-> "",
                     companyDomain |-> "x.com"]>>
    /\ ret.real = ret.mock

\* a Pipedrive person has a first and a last name with a company name or an
\* email domain
PipedriveEnough(person) ==
    /\ person.data.first_name # "" /\ person.data.last_name # ""
    /\ (person.data.org_id.name # "" \/ person.data.email # Absent)

\* a HubSpot contact has a LinkedIn URL, or a first and a last name with a
\* company name or website
HubspotEnough(contact) ==
    \/ contact.data.hs_linkedin_url # Absent
    \/ /\ contact.data.firstname # Absent /\ contact.data.lastname # Absent
       /\ (contact.data.company # Absent \/ contact.data.hs_email_domain # Absent)

ExternalIds(people_out) == [i \in 1..Len(people_out) |-> people_out[i].externalID]

\* C25: format_persons_for_surfe and prepare_surfe_payload raise nothing and
\* put in the batch exactly the persons with enough data, in input order
C25_InsufficientSkipped ==
    /\ (fn = "format_persons_for_surfe" /\ called) =>
          LET kept == SelectSeq(arg, PipedriveEnough)
          IN  /\ ret.raised = NoRaise
              /\ ExternalIds(ret.people) = [i \in 1..Len(kept) |-> Str(kept[i].id)]
    /\ (fn = "prepare_surfe_payload" /\ called) =>
          LET kept == SelectSeq(arg, HubspotEnough)
          IN  /\ ret.raised = NoRaise
              /\ ExternalIds(ret.people) = [i \in 1..Len(kept) |-> kept[i].id]

(***************************************************************************)
(* The paginated Zoom listings.                                           *)
(***************************************************************************)

MaxPages == 3

Listings == {"registrants", "participants"}

PageTokens == {Absent, "", "t1", "t2"}

\* what Zoom answers to a page request: a failing status, or a body whose
\* record key may be missing
PageAnswers ==
    [ok : {FALSE}, records : {NoArray}, next_page_token : {Absent}]
        \cup [ok : {TRUE},
              records : {NoArray, Array(<<"r1">>), Array(<<"r2">>)},
              next_page_token : PageTokens]

\* a request that never carries a token
page_params_none(token) == Absent

\* get_webinar_registrants / get_webinar_participants: the next_page_token
\* parameter of the request, Absent when the parameter is left out
page_params(token) == IF Truthy(token) THEN token ELSE Absent

InitPages ==
    /\ page_fn \in Listings
    /\ page_pc = "loop"
    /\ next_page_token = Absent
    /\ sent_tokens = <<>>
    /\ pages = <<>>
    /\ all_records = <<>>
    /\ NoRun
    /\ NoBatch
    /\ NoPure
    /\ NoHook

\* one pass of `while True`: the request, raise_for_status, extend, the new
\* token and the break
PageFetch ==
    /\ page_pc = "loop"
    /\ Len(sent_tokens) < MaxPages
    /\ \E answer \in PageAnswers :
        /\ sent_tokens' = Append(sent_tokens, page_params(next_page_token))
        /\ IF ~answer.ok
           THEN /\ page_pc' = "raised"
                /\ UNCHANGED <<pages, all_records, next_page_token>>
           ELSE /\ pages' = Append(pages, answer)
                /\ all_records' = all_records \o
                       (IF answer.records.has THEN answer.records.v ELSE <<>>)
                /\ next_page_token' = answer.next_page_token
                /\ page_pc' = IF ~Truthy(answer.next_page_token) THEN "returned" ELSE "loop"
    /\ UNCHANGED page_fn
    /\ UNCHANGED <<runVars, batchVars, pureVars, hookVars>>

NextPages ==
    \/ PageFetch

SpecPages == InitPages /\ [][NextPages]_vars

RECURSIVE Concat(_)
Concat(ps) == IF ps = <<>> THEN <<>> ELSE Head(ps).records.v \o Concat(Tail(ps))

\* the first request carries no token, every later one the token of the
\* response before it, and no request follows a response without a token
TokensChained ==
    /\ \A i \in 1..Len(sent_tokens) :
          sent_tokens[i] = IF i = 1 THEN Absent ELSE pages[i - 1].next_page_token
    /\ \A i \in 1..Len(pages) :
          pages[i].next_page_token \in {Absent, ""} => i = Len(sent_tokens)
    /\ all_records = Concat(pages)

LastPageArrived == pages # <<>> /\ Last(pages).next_page_token \in {Absent, ""}

\* C26: the listings pass each response's token to the next request, stop
\* at the first response without a token and return the records of all
\* fetched pages in order; the loop is left if and only if such a response
\* has arrived
C26_Pagination ==
    page_fn \in Listings =>
        /\ TokensChained
        /\ (page_pc # "loop") <=> LastPageArrived
        /\ page_pc # "raised"

\* C26 amended: as above, but the loop is left if and only if such a
\* response has arrived or a page request has raised; only in the first
\* case is a list returned
C26_PaginationAmended ==
    page_fn \in Listings =>
        /\ TokensChained
        /\ (page_pc = "returned") <=> LastPageArrived
        /\ (page_pc = "raised") <=> Len(sent_tokens) = Len(pages) + 1
        /\ (page_pc = "loop") <=> (Len(sent_tokens) = Len(pages) /\ ~LastPageArrived)

\* two pages fetched, the second asked with the token of the first
C26_Witness ==
    /\ page_pc = "returned"
    /\ sent_tokens = <<Absent, "t1">>
    /\ Len(pages) = 2
    /\ pages[2].next_page_token = ""
    /\ all_records = <<"r1", "r2">>

(***************************************************************************)
(* The two webhook handlers.  In the tailwind handler the names intercom  *)
(* and surfe stand for the service objects, as in the intercom handler.   *)
(***************************************************************************)

Handlers == {"intercom", "tailwind"}

Topics == {Absent, "conversation.user.created", "conversation.admin.replied"}

\* a delivery: the X-Hub-Signature header, the hex digest that HMAC-SHA1
\* gives for its body under WEBHOOK_SECRET, whether the body parses as
\* JSON, and what the payload holds.  The intercom handler reads the id of
\* the first contact, the tailwind handler the email of the user.
Requests(h) ==
    [signature : {Absent, "", "sha1=d1", "sha1=d2", "d1"},
     body_digest : {"d1"},
     json_ok : BOOLEAN,
     topic : Topics,
     conversation_id : {Absent, "c1"},
     contact_id : IF h = "intercom" THEN {Absent, "k1"} ELSE {Absent},
     email : IF h = "tailwind" THEN {Absent, "", "e@x.com"} ELSE {Absent}]

\* hmac.new(key, msg, sha1).hexdigest()
hexdigest(secret, message) == message.body_digest

\* a verification that accepts every signature
verify_any(secret, signature, message) == TRUE

\* IntercomService.verify_webhook_signature
verify_webhook_signature(secret, signature, message) ==
    ("sha1=" \o hexdigest(secret, message)) = signature

WEBHOOK_SECRET == "secret"

Answer(status, body) == [status |-> status, body |-> body, is_c_level |-> FALSE]

\* what Intercom answers to get_contact_details: the request raises, or a
\* body with or without an email
ContactAnswers == [ok : {FALSE}, email : {Absent}] \cup [ok : {TRUE}, email : {Absent, "e@x.com"}]

\* what Surfe answers: the request raises, or a person with seniorities
\* and (byEmail search only) departments
SurfeAnswers ==
    [ok : {FALSE}, seniorities : {NoArray}, departments : {NoArray}]
        \cup [ok : {TRUE},
              seniorities : {NoArray, Array(<<"C-Level">>), Array(<<"Manager">>)},
              departments : {NoArray, Array(<<"C Suite">>), Array(<<"Sales">>)}]

\* any(x.lower() == wanted for x in d.get(key, []))
AnyLower(arr, wanted) == \E i \in 1..Len(arr.v) : Lower(arr.v[i]) = wanted

is_c_level(h, answer) ==
    IF h = "intercom"
    THEN AnyLower(answer.seniorities, "c-level") \/ AnyLower(answer.departments, "c suite")
    ELSE AnyLower(answer.seniorities, "c-level")

\* `except Exception` turns whatever the try block raised, the
\* HTTPException(400) of the missing-data test included, into a 500
caught(detail) == Answer(500, detail)

InitWebhook ==
    /\ handler \in Handlers
    /\ request \in Requests(handler)
    /\ hook_pc = "received"
    /\ calls = <<>>
    /\ response = NoAnswer
    /\ NoRun
    /\ NoBatch
    /\ NoPure
    /\ NoPages

\* from the entry of handle_webhook to its first outbound call
HookReceive ==
    /\ hook_pc = "received"
    /\ IF ~Truthy(request.signature)
            \/ ~verify_webhook_signature(WEBHOOK_SECRET, request.signature, request)
       THEN /\ response' = Answer(401, "Invalid webhook signature")
            /\ hook_pc' = "answered"
       ELSE IF ~request.json_ok
       THEN /\ response' = Answer(400, "Invalid JSON payload")
            /\ hook_pc' = "answered"
       ELSE IF request.topic # "conversation.user.created"
       THEN /\ response' = Answer(200, "ignored")
            /\ hook_pc' = "answered"
       ELSE IF handler = "intercom"
       THEN /\ hook_pc' = "get_contact_details"
            /\ UNCHANGED response
       ELSE IF ~(Truthy(request.conversation_id) /\ Truthy(request.email))
       THEN /\ response' = caught("Missing required conversation data")
            /\ hook_pc' = "answered"
       ELSE /\ hook_pc' = "enrich"
            /\ UNCHANGED response
    /\ UNCHANGED <<handler, request, calls>>
    /\ UNCHANGED <<runVars, batchVars, pureVars, pageVars>>

\* intercom handler: the contact is asked from Intercom, then the
\* missing-data test
HookContactDetails ==
    /\ hook_pc = "get_contact_details"
    /\ \E answer \in ContactAnswers :
        /\ calls' = Append(calls, [to |-> "intercom.get_contact_details",
                                   with |-> request.contact_id, answer |-> answer])
        /\ IF ~answer.ok
           THEN /\ response' = caught("RequestException")
                /\ hook_pc' = "answered"
           ELSE IF ~(Truthy(request.conversation_id) /\ Truthy(answer.email))
           THEN /\ response' = caught("Missing required conversation data")
                /\ hook_pc' = "answered"
           ELSE /\ hook_pc' = "enrich"
                /\ UNCHANGED response
    /\ UNCHANGED <<handler, request>>
    /\ UNCHANGED <<runVars, batchVars, pureVars, pageVars>>

contact_email == IF handler = "intercom" THEN Last(calls).answer.email ELSE request.email

\* the Surfe call and what follows it up to the next outbound call
HookEnrich ==
    /\ hook_pc = "enrich"
    /\ \E answer \in SurfeAnswers :
        /\ calls' = Append(calls,
              [to |-> IF handler = "intercom" THEN "surfe.get_contact_details_by_email"
                      ELSE "surfe.enrich_contact",
               with |-> contact_email, answer |-> answer])
        /\ IF ~answer.ok
           THEN /\ response' = caught("Failed to enrich contact")
                /\ hook_pc' = "answered"
           ELSE IF handler = "tailwind" /\ is_c_level(handler, answer)
           THEN /\ hook_pc' = "update_conversation_priority"
                /\ UNCHANGED response
           ELSE /\ response' = [status |-> 200, body |-> "success",
                                is_c_level |-> is_c_level(handler, answer)]
                /\ hook_pc' = "answered"
    /\ UNCHANGED <<handler, request>>
    /\ UNCHANGED <<runVars, batchVars, pureVars, pageVars>>

\* tailwind handler: the priority is put to Intercom; the method is not a
\* coroutine, so `await` on what it returns raises TypeError, and a failing
\* request raises too
HookPriority ==
    /\ hook_pc = "update_conversation_priority"
    /\ \E ok \in BOOLEAN :
        /\ calls' = Append(calls, [to |-> "intercom.update_conversation_priority",
                                   with |-> request.conversation_id, answer |-> ok])
        /\ response' = caught(IF ok THEN "TypeError" ELSE "Failed to update conversation priority")
    /\ hook_pc' = "answered"
    /\ UNCHANGED <<handler, request>>
    /\ UNCHANGED <<runVars, batchVars, pureVars, pageVars>>

NextWebhook ==
    \/ HookReceive
    \/ HookContactDetails
    \/ HookEnrich
    \/ HookPriority

SpecWebhook == InitWebhook /\ [][NextWebhook]_vars

\* the header is present and is "sha1=" followed by the digest of the body
Signed == request.signature = "sha1=d1"

RelevantEvent == Signed /\ request.json_ok /\ request.topic = "conversation.user.created"

\* the event lacks the conversation id or the contact email
LacksData ==
    \/ request.conversation_id = Absent
    \/ handler = "tailwind" /\ request.email \in {Absent, ""}
    \/ handler = "intercom" /\ calls # <<>> /\ calls[1].answer.ok /\ calls[1].answer.email = Absent

\* C23: a signed conversation.user.created event that lacks the conversation
\* id or the contact email is answered with status 400, "Missing required
\* conversation data"
C23_MissingDataIs400 ==
    (handler \in Handlers /\ hook_pc = "answered" /\ RelevantEvent /\ LacksData
        /\ (handler = "intercom" => calls[1].answer.ok)) =>
        /\ response.status = 400
        /\ response.body = "Missing required conversation data"

\* C27: no outbound call is made or about to be made unless the signature is
\* present and verifies and the topic is conversation.user.created; an
\* unsigned or wrongly signed request is answered 401, a signed event of
\* another topic "ignored"
C27_WebhookGating ==
    handler \in Handlers =>
        /\ (calls # <<>> \/ hook_pc \notin {"received", "answered"}) => RelevantEvent
        /\ (hook_pc = "answered" /\ ~Signed) =>
              (response.status = 401 /\ calls = <<>>)
        /\ (hook_pc = "answered" /\ Signed /\ request.json_ok
                /\ request.topic # "conversation.user.created") =>
              (response.body = "ignored" /\ calls = <<>>)

\* a wrongly signed conversation.user.created event is refused
C27_Witness ==
    /\ handler = "intercom"
    /\ hook_pc = "answered"
    /\ request.signature = "sha1=d2"
    /\ request.json_ok
    /\ request.topic = "conversation.user.created"
    /\ request.conversation_id = "c1"
    /\ request.contact_id = "k1"
    /\ response.status = 401
    /\ calls = <<>>

====
